---- MODULE Spec2Model ----
(***************************************************************************)
(* Model of the dynamic-request-scheduler: the Scheduler of package engine *)
(* (Start, Stop, runDryRun, runOnce, runContinuous, worker,                *)
(* shouldRunRequest, executeRequest) together with the parts of package    *)
(* spec it drives (Evaluator.EvaluateRequest, computeScheduledTime,        *)
(* TemplateEngine.seq).                                                    *)
(*                                                                         *)
(* Goroutines are modelled as processes with a program counter.  The       *)
(* buffered channel used as the concurrency gate is modelled as the Go     *)
(* runtime implements it: a buffer of capacity K and a FIFO queue of       *)
(* blocked senders that a receive serves directly.                         *)
(***************************************************************************)
EXTENDS Integers, Sequences, FiniteSets

\* ---------------------------------------------------------------- bounds
MaxReqs == 2          \* longest request list
MaxConcurrency == 2   \* largest configured concurrency
MaxWorkers == 2       \* largest configured number of workers
MaxPolls == 2         \* scans of the request list begun by the workers
NarrowBits == 3       \* width of int on a build where it is the narrower type
WideBits == 10        \* width of int64, and of int where it is as wide
MaxClock == 9         \* largest reading of the clock, in quanta
RandModulus == 16     \* number of states of a random source
MaxRandCalls == 2     \* longest sequence of calls of the random functions
MaxStringLen == 4     \* longest string tested for template syntax

\* ------------------------------------------------------ request definitions
\* A ScheduledRequest, reduced to what the scheduler's control flow reads:
\*   sched    which one of the four ScheduleSpec strategies is set
\*   epoch    *Schedule.Epoch (meaningful for sched = "epoch")
\*   usesSeq  some template of the request calls {{ seq }}
\*   badExpr  the URL template fails to parse or execute
\*   reply    what the server behind the URL does with a request: it answers
\*            with a 2xx status, with another status, or not at all
RelPlain == [sched |-> "relative", epoch |-> 0, usesSeq |-> FALSE, badExpr |-> FALSE,
             reply |-> "status_2xx"]
RelBad == [sched |-> "relative", epoch |-> 0, usesSeq |-> FALSE, badExpr |-> TRUE,
           reply |-> "status_2xx"]
EpochOne == [sched |-> "epoch", epoch |-> 1, usesSeq |-> FALSE, badExpr |-> FALSE,
             reply |-> "status_non2xx"]
TemplateSeq == [sched |-> "template", epoch |-> 0, usesSeq |-> TRUE, badExpr |-> FALSE,
                reply |-> "send_error"]
CronSeq == [sched |-> "cron", epoch |-> 0, usesSeq |-> TRUE, badExpr |-> FALSE,
            reply |-> "status_2xx"]

\* The definitions a request list is drawn from, in the order they keep in it
Catalogue == <<RelPlain, RelBad, EpochOne, TemplateSeq, CronSeq>>

\* The request lists: 1..MaxReqs distinct definitions of the catalogue
RequestLists ==
  UNION {{[i \in 1..n |-> Catalogue[f[i]]] :
            f \in {g \in [1..n -> 1..Len(Catalogue)] :
                     \A i \in 1..n, j \in 1..n : i < j => g[i] < g[j]}} :
         n \in 1..MaxReqs}

Max(a, b) == IF a >= b THEN a ELSE b

UnitIds == 1..Max(MaxReqs, MaxConcurrency)

WorkerIds == 1..MaxWorkers

IdleUnit == [pc |-> "none", req |-> 0, tmp |-> 0]

VARIABLES
  requests,     \* Scheduler.requests
  workers,      \* Scheduler.workers
  concurrency,  \* Scheduler.concurrency
  once,         \* Scheduler.once
  dryRun,       \* Scheduler.dryRun
  running,      \* Scheduler.running (guarded by Scheduler.mu)
  cancelled,    \* Scheduler.ctx is done (cancel has been called)
  startPc,      \* position of the goroutine that called Start
  startIdx,     \* loop index of Start's current for loop
  startErr,     \* what Start returned: "none" (not yet), "nil", "already running"
  wg,           \* WaitGroup counter (runOnce's wg, runContinuous' s.wg)
  sem,          \* number of elements in the semaphore channel's buffer
  sendq,        \* goroutines blocked in `semaphore <- struct{}{}`, FIFO
  units,        \* dispatch goroutines: [pc, req, tmp]
  wpc,          \* worker goroutines: position
  widx,         \* worker goroutines: index into s.requests of the scan
  polls,        \* scans of the request list begun so far
  now,          \* time.Now().Unix()
  Sequence,     \* EvaluationContext.Sequence
  resolved,     \* per request: calls of EvaluateRequest
  sent,         \* per request: calls of HTTPClient.SendRequest
  outcome,      \* per request: how its last dispatch ended
  seqCalls,     \* completed calls of seq
  seqSeen,      \* values returned by seq so far
  input,        \* argument of the call of a function of package spec
  output        \* what the call returned

vars == <<requests, workers, concurrency, once, dryRun, running, cancelled,
          startPc, startIdx, startErr, wg, sem, sendq, units, wpc, widx,
          polls, now, Sequence, resolved, sent, outcome, seqCalls, seqSeen,
          input, output>>

cfgVars == <<requests, workers, concurrency, once, dryRun>>
seqGhost == <<seqCalls, seqSeen>>
pureVars == <<input, output>>

\* No function of package spec is being called on its own
NoCall == [kind |-> "none"]

N == Len(requests)

Init ==
  /\ requests \in RequestLists
  /\ once \in BOOLEAN
  /\ dryRun \in BOOLEAN
  \* runDryRun reads neither field, runOnce does not read s.workers
  /\ workers \in (IF dryRun \/ once THEN {1} ELSE 1..MaxWorkers)
  /\ concurrency \in (IF dryRun THEN {1} ELSE 1..MaxConcurrency)
  /\ running = FALSE
  /\ cancelled = FALSE
  /\ startPc = "idle"
  /\ startIdx = 0
  /\ startErr = "none"
  /\ wg = 0
  /\ sem = 0
  /\ sendq = <<>>
  /\ units = [u \in UnitIds |-> IdleUnit]
  /\ wpc = [w \in WorkerIds |-> "none"]
  /\ widx = [w \in WorkerIds |-> 0]
  /\ polls = 0
  /\ now = 0
  /\ Sequence = 0
  /\ resolved = [i \in 1..Len(requests) |-> 0]
  /\ sent = [i \in 1..Len(requests) |-> 0]
  /\ outcome = [i \in 1..Len(requests) |-> "none"]
  /\ seqCalls = 0
  /\ seqSeen = {}
  /\ input = NoCall
  /\ output = NoCall

\* ------------------------------------------------------------ pure parts
\* Evaluator.EvaluateRequest fails before any other template is evaluated
\* when the URL template does not parse or execute.
URLFails(def) == def.badExpr

\* Evaluator.computeScheduledTime: cron is not implemented and returns an
\* error; epoch, relative and template return an instant.
ScheduleFails(def) == def.sched = "cron"

\* A shouldRunRequest for which an epoch is due only once it has passed
shouldRunRequestAfterEpoch(def, t) ==
  IF def.sched = "relative" THEN TRUE
  ELSE IF def.sched = "epoch" THEN def.epoch < t
  ELSE FALSE

\* Scheduler.shouldRunRequest
shouldRunRequest(def, t) ==
  IF def.sched = "relative" THEN TRUE
  ELSE IF def.sched = "epoch" THEN def.epoch <= t
  ELSE FALSE

\* A seq that steps the counter by two
SeqIncrementByTwo(v) == v + 2

\* TemplateEngine.seq, `e.ctx.Sequence++`: the value stored from the value loaded
SeqIncrement(v) == v + 1

\* A channel send that never blocks (an unbuffered-capacity check left out)
SemAlwaysHasRoom(s, k) == TRUE

\* `semaphore <- struct{}{}` proceeds at once iff the buffer is not full
SemHasRoom(s, k) == s < k

\* A Start that tests s.once before s.dryRun
RunModeOnceFirst(dry, one) ==
  IF one THEN "onceSpawn" ELSE IF dry THEN "dry" ELSE "contSpawn"

\* Start's choice of the run mode
RunMode(dry, one) ==
  IF dry THEN "dry" ELSE IF one THEN "onceSpawn" ELSE "contSpawn"

\* A worker whose selects never take the ctx.Done() case
CtxNeverDone(c) == FALSE

\* `case <-s.ctx.Done()` of the worker's selects is taken iff ctx is done
CtxDone(c) == c

\* A SendRequest that returns an error for a status outside 2xx
SendRequestChecksStatus(def) ==
  IF def.reply = "status_non2xx" THEN "send_error" ELSE def.reply

\* HTTPClient.SendRequest as executeRequest sees it: an error when the
\* server does not answer, else the response's status
SendRequest(def) == def.reply

Bump(f, i) == [f EXCEPT ![i] = @ + 1]

\* --------------------------------------------------------- the semaphore
\* `<-semaphore`: with a sender blocked on the full channel the receive
\* takes one element and the first blocked sender's element enters the
\* buffer; otherwise the buffer shrinks by one.
SemAfterRecv(s, q) == IF q = <<>> THEN s - 1 ELSE s
SendqAfterRecv(q) == IF q = <<>> THEN q ELSE Tail(q)
Woken(q) == IF q = <<>> THEN 0 ELSE Head(q)

\* A dispatch goroutine whose deferred receive is missing: it ends without
\* giving its slot back, and a blocked sender is woken only by a slot that
\* was never taken
FinishUnitLeaksSlot(u) ==
  /\ UNCHANGED <<sem, sendq, wpc>>
  /\ IF once
       THEN /\ units' = [units EXCEPT ![u] = [@ EXCEPT !.pc = "done", !.tmp = 0]]
            /\ wg' = wg - 1
       ELSE /\ units' = [units EXCEPT ![u] = IdleUnit]
            /\ UNCHANGED wg

\* The end of a dispatch goroutine: the deferred `<-semaphore`, and in
\* run-once mode the deferred wg.Done().
FinishUnit(u) ==
  /\ sem' = SemAfterRecv(sem, sendq)
  /\ sendq' = SendqAfterRecv(sendq)
  /\ IF once
       THEN /\ units' = [x \in UnitIds |->
                          IF x = u THEN [units[u] EXCEPT !.pc = "done", !.tmp = 0]
                          ELSE IF x = Woken(sendq) THEN [units[x] EXCEPT !.pc = "exec"]
                          ELSE units[x]]
            /\ wg' = wg - 1
            /\ UNCHANGED wpc
       ELSE /\ units' = [units EXCEPT ![u] = IdleUnit]
            /\ wpc' = [w \in WorkerIds |-> IF w = Woken(sendq) THEN "woken" ELSE wpc[w]]
            /\ UNCHANGED wg

\* ------------------------------------------------------- Start and Stop
\* Scheduler.Start up to the call of runDryRun, runOnce or runContinuous
Start ==
  /\ startPc = "idle"
  /\ IF running
       THEN /\ startPc' = "returned"
            /\ startErr' = "already running"
            /\ UNCHANGED <<running, startIdx>>
       ELSE /\ running' = TRUE
            /\ startPc' = RunMode(dryRun, once)
            /\ startIdx' = 1
            /\ UNCHANGED startErr
  /\ UNCHANGED <<cfgVars, pureVars, cancelled, wg, sem, sendq, units, wpc, widx, polls,
                 now, Sequence, resolved, sent, outcome, seqGhost>>

\* A Stop that waits until the scheduler is running
StopWaitsForStart ==
  /\ running
  /\ cancelled' = TRUE /\ running' = FALSE
  /\ UNCHANGED <<cfgVars, pureVars, startPc, startIdx, startErr, wg, sem, sendq, units,
                 wpc, widx, polls, now, Sequence, resolved, sent, outcome,
                 seqGhost>>

\* Scheduler.Stop
Stop ==
  /\ IF running
       THEN cancelled' = TRUE /\ running' = FALSE
       ELSE UNCHANGED <<cancelled, running>>
  /\ UNCHANGED <<cfgVars, pureVars, startPc, startIdx, startErr, wg, sem, sendq, units,
                 wpc, widx, polls, now, Sequence, resolved, sent, outcome,
                 seqGhost>>

\* The clock advances by a second.  Only shouldRunRequest of a continuous
\* run reads it, to compare it with an epoch: the clock is followed up to
\* the latest epoch of the request list.
Tick ==
  /\ ~dryRun /\ ~once
  /\ \E i \in 1..N : requests[i].sched = "epoch" /\ now < requests[i].epoch
  /\ now' = now + 1
  /\ UNCHANGED <<cfgVars, pureVars, running, cancelled, startPc, startIdx, startErr, wg,
                 sem, sendq, units, wpc, widx, polls, Sequence, resolved, sent,
                 outcome, seqGhost>>

\* ------------------------------------------------------------- runDryRun
\* One iteration of runDryRun's loop: EvaluateRequest of requests[startIdx]
\* on the calling goroutine, and the return after the last one.
DryRunStep ==
  /\ startPc = "dry"
  /\ LET i == startIdx
         def == requests[i]
         callsSeq == ~URLFails(def) /\ def.usesSeq
         v == SeqIncrement(Sequence)
     IN /\ resolved' = Bump(resolved, i)
        /\ IF callsSeq
             THEN /\ Sequence' = v
                  /\ seqCalls' = seqCalls + 1
                  /\ seqSeen' = seqSeen \cup {v}
             ELSE UNCHANGED <<Sequence, seqGhost>>
        /\ outcome' = [outcome EXCEPT ![i] =
                         IF URLFails(def) \/ ScheduleFails(def)
                           THEN "eval_error" ELSE "dry_logged"]
        /\ IF i = N
             THEN startPc' = "returned" /\ startErr' = "nil" /\ startIdx' = 0
             ELSE startIdx' = i + 1 /\ UNCHANGED <<startPc, startErr>>
  /\ UNCHANGED <<cfgVars, pureVars, running, cancelled, wg, sem, sendq, units, wpc, widx,
                 polls, now, sent>>

\* --------------------------------------------------------------- runOnce
\* One iteration of runOnce's loop: wg.Add(1) and `go func(request)`.
OnceSpawn ==
  /\ startPc = "onceSpawn"
  /\ wg' = wg + 1
  /\ units' = [units EXCEPT ![startIdx] = [pc |-> "acquire", req |-> startIdx, tmp |-> 0]]
  /\ IF startIdx = N
       THEN startPc' = "onceWait" /\ startIdx' = 0
       ELSE startIdx' = startIdx + 1 /\ UNCHANGED startPc
  /\ UNCHANGED <<cfgVars, pureVars, running, cancelled, startErr, sem, sendq, wpc, widx,
                 polls, now, Sequence, resolved, sent, outcome, seqGhost>>

\* wg.Wait() of runOnce returns when the counter is zero
WaitGroupDone(c) == c = 0

\* runOnce: wg.Wait() and return nil
OnceWait ==
  /\ startPc = "onceWait"
  /\ WaitGroupDone(wg)
  /\ startPc' = "returned"
  /\ startErr' = "nil"
  /\ UNCHANGED <<cfgVars, pureVars, running, cancelled, startIdx, wg, sem, sendq, units,
                 wpc, widx, polls, now, Sequence, resolved, sent, outcome,
                 seqGhost>>

\* A run-once goroutine's `semaphore <- struct{}{}`
UnitAcquire(u) ==
  /\ units[u].pc = "acquire"
  /\ IF SemHasRoom(sem, concurrency)
       THEN /\ sem' = sem + 1
            /\ units' = [units EXCEPT ![u].pc = "exec"]
            /\ UNCHANGED sendq
       ELSE /\ sendq' = Append(sendq, u)
            /\ units' = [units EXCEPT ![u].pc = "blocked"]
            /\ UNCHANGED sem
  /\ UNCHANGED <<cfgVars, pureVars, running, cancelled, startPc, startIdx, startErr, wg,
                 wpc, widx, polls, now, Sequence, resolved, sent, outcome,
                 seqGhost>>

\* -------------------------------------------------------- executeRequest
\* A dispatch goroutine that releases its slot only after a send (no defer):
\* on an evaluation error it ends holding the slot.
FailUnitKeepsSlot(u) ==
  /\ UNCHANGED <<sem, sendq, wpc>>
  /\ IF once
       THEN /\ units' = [units EXCEPT ![u] = [@ EXCEPT !.pc = "done", !.tmp = 0]]
            /\ wg' = wg - 1
       ELSE /\ units' = [units EXCEPT ![u] = IdleUnit]
            /\ UNCHANGED wg

\* A run-once that gives up at the first evaluation error: the goroutines
\* that have not begun to execute are dropped and the wait ends.
FailUnitDropsRest(u) ==
  /\ sem' = SemAfterRecv(sem, <<>>)
  /\ sendq' = <<>>
  /\ units' = [x \in UnitIds |->
                IF x = u \/ units[x].pc \in {"acquire", "blocked"}
                  THEN [units[x] EXCEPT !.pc = "done", !.tmp = 0]
                  ELSE units[x]]
  /\ wg' = wg - Cardinality({x \in UnitIds : x = u \/ units[x].pc \in {"acquire", "blocked"}})
  /\ UNCHANGED wpc

\* executeRequest's early return on an evaluation error; the goroutine's
\* deferred calls run.
FailUnit(u) == FinishUnit(u)

\* The rest of EvaluateRequest once the URL, header and body templates are
\* resolved (computeScheduledTime), and executeRequest's call of
\* sendHTTPRequest when it succeeded.
AfterTemplates(u) ==
  LET i == units[u].req
  IN IF ScheduleFails(requests[i])
       THEN /\ outcome' = [outcome EXCEPT ![i] = "eval_error"]
            /\ FailUnit(u)
            /\ UNCHANGED sent
       ELSE /\ sent' = Bump(sent, i)
            /\ units' = [units EXCEPT ![u] = [@ EXCEPT !.pc = "sending", !.tmp = 0]]
            /\ UNCHANGED <<outcome, sem, sendq, wg, wpc>>

\* executeRequest begins: EvaluateRequest up to its first call of seq (the
\* load of `e.ctx.Sequence++`), or to its end when no template calls seq.
UnitExec(u) ==
  /\ units[u].pc = "exec"
  /\ LET i == units[u].req
         def == requests[i]
     IN /\ resolved' = Bump(resolved, i)
        /\ IF URLFails(def)
             THEN /\ outcome' = [outcome EXCEPT ![i] = "eval_error"]
                  /\ FailUnit(u)
                  /\ UNCHANGED sent
             ELSE IF def.usesSeq
               THEN /\ units' = [units EXCEPT ![u] = [@ EXCEPT !.pc = "seqStore", !.tmp = Sequence]]
                    /\ UNCHANGED <<outcome, sent, sem, sendq, wg, wpc>>
               ELSE AfterTemplates(u)
  /\ UNCHANGED <<cfgVars, pureVars, running, cancelled, startPc, startIdx, startErr,
                 widx, polls, now, Sequence, seqGhost>>

\* seq: the store of `e.ctx.Sequence++`
UnitSeqStore(u) ==
  /\ units[u].pc = "seqStore"
  /\ Sequence' = SeqIncrement(units[u].tmp)
  /\ units' = [units EXCEPT ![u] = [@ EXCEPT !.pc = "seqRet", !.tmp = 0]]
  /\ UNCHANGED <<cfgVars, pureVars, running, cancelled, startPc, startIdx, startErr, wg,
                 sem, sendq, wpc, widx, polls, now, resolved, sent, outcome,
                 seqGhost>>

\* seq: `return e.ctx.Sequence`, then the rest of executeRequest up to the
\* call of the transport
UnitSeqRet(u) ==
  /\ units[u].pc = "seqRet"
  /\ seqCalls' = seqCalls + 1
  /\ seqSeen' = seqSeen \cup {Sequence}
  /\ AfterTemplates(u)
  /\ UNCHANGED <<cfgVars, pureVars, running, cancelled, startPc, startIdx, startErr,
                 widx, polls, now, Sequence, resolved>>

\* HTTPClient.SendRequest returns; executeRequest logs the outcome and
\* returns; the goroutine's deferred calls run.
UnitSendDone(u) ==
  /\ units[u].pc = "sending"
  /\ outcome' = [outcome EXCEPT ![units[u].req] = SendRequest(requests[units[u].req])]
  /\ FinishUnit(u)
  /\ UNCHANGED <<cfgVars, pureVars, running, cancelled, startPc, startIdx, startErr,
                 widx, polls, now, Sequence, resolved, sent, seqGhost>>

\* --------------------------------------------------------- runContinuous
\* One iteration of runContinuous' loop: s.wg.Add(1) and `go s.worker(...)`
ContSpawn ==
  /\ startPc = "contSpawn"
  /\ wg' = wg + 1
  /\ wpc' = [wpc EXCEPT ![startIdx] = "top"]
  /\ IF startIdx = workers
       THEN startPc' = "contWait" /\ startIdx' = 0
       ELSE startIdx' = startIdx + 1 /\ UNCHANGED startPc
  /\ UNCHANGED <<cfgVars, pureVars, running, cancelled, startErr, sem, sendq, units,
                 widx, polls, now, Sequence, resolved, sent, outcome, seqGhost>>

\* runContinuous: `<-s.ctx.Done()`, s.wg.Wait() and return nil
ContWait ==
  /\ startPc = "contWait"
  /\ cancelled
  /\ WaitGroupDone(wg)
  /\ startPc' = "returned"
  /\ startErr' = "nil"
  /\ UNCHANGED <<cfgVars, pureVars, running, cancelled, startIdx, wg, sem, sendq, units,
                 wpc, widx, polls, now, Sequence, resolved, sent, outcome,
                 seqGhost>>

\* worker returns: the deferred s.wg.Done()
WorkerExit(w) ==
  /\ wpc' = [wpc EXCEPT ![w] = "exited"]
  /\ widx' = [widx EXCEPT ![w] = 0]
  /\ wg' = wg - 1

\* The slot of `units` the next continuous dispatch goroutine is kept in
FreeUnit == CHOOSE u \in UnitIds :
              /\ units[u].pc = "none"
              /\ \A x \in UnitIds : units[x].pc = "none" => u <= x

\* worker: `go func(request)` for requests[widx[w]], and the step of the
\* scan to the next request, or past the last one to time.Sleep
SpawnAndAdvance(w) ==
  /\ units' = [units EXCEPT ![FreeUnit] = [pc |-> "exec", req |-> widx[w], tmp |-> 0]]
  /\ IF widx[w] = N
       THEN wpc' = [wpc EXCEPT ![w] = "top"] /\ widx' = [widx EXCEPT ![w] = 0]
       ELSE wpc' = [wpc EXCEPT ![w] = "scan"] /\ widx' = [widx EXCEPT ![w] = @ + 1]

\* shouldRunRequest accepts none of the definitions at any time: a scan of
\* the list dispatches nothing, however often it is repeated
NothingEverDue ==
  \A i \in 1..N : requests[i].sched \notin {"relative", "epoch"}

\* worker: the outer select at the head of the loop (after time.Sleep for
\* every iteration but the first).  The loop has no end of its own: the
\* scans are counted up to MaxPolls, and go on beyond that where they
\* change nothing.
WorkerTop(w) ==
  /\ wpc[w] = "top"
  /\ IF CtxDone(cancelled)
       THEN WorkerExit(w) /\ UNCHANGED polls
       ELSE /\ polls < MaxPolls \/ NothingEverDue
            /\ polls' = IF polls < MaxPolls THEN polls + 1 ELSE polls
            /\ wpc' = [wpc EXCEPT ![w] = "scan"]
            /\ widx' = [widx EXCEPT ![w] = 1]
            /\ UNCHANGED wg
  /\ UNCHANGED <<cfgVars, pureVars, running, cancelled, startPc, startIdx, startErr, sem,
                 sendq, units, now, Sequence, resolved, sent, outcome, seqGhost>>

\* worker: one iteration of the scan of s.requests: the inner select,
\* shouldRunRequest, `semaphore <- struct{}{}` and `go func(request)`
WorkerScan(w) ==
  /\ wpc[w] = "scan"
  /\ IF CtxDone(cancelled)
       THEN WorkerExit(w) /\ UNCHANGED <<sem, sendq, units>>
       ELSE IF shouldRunRequest(requests[widx[w]], now)
         THEN IF SemHasRoom(sem, concurrency)
                THEN /\ sem' = sem + 1
                     /\ SpawnAndAdvance(w)
                     /\ UNCHANGED <<sendq, wg>>
                ELSE /\ sendq' = Append(sendq, w)
                     /\ wpc' = [wpc EXCEPT ![w] = "blocked"]
                     /\ UNCHANGED <<sem, units, widx, wg>>
         ELSE /\ IF widx[w] = N
                   THEN wpc' = [wpc EXCEPT ![w] = "top"] /\ widx' = [widx EXCEPT ![w] = 0]
                   ELSE widx' = [widx EXCEPT ![w] = @ + 1] /\ UNCHANGED wpc
              /\ UNCHANGED <<sem, sendq, units, wg>>
  /\ UNCHANGED <<cfgVars, pureVars, running, cancelled, startPc, startIdx, startErr,
                 polls, now, Sequence, resolved, sent, outcome, seqGhost>>

\* worker: its blocked `semaphore <- struct{}{}` has completed; `go func(request)`
WorkerSpawn(w) ==
  /\ wpc[w] = "woken"
  /\ SpawnAndAdvance(w)
  /\ UNCHANGED <<cfgVars, pureVars, running, cancelled, startPc, startIdx, startErr, wg,
                 sem, sendq, polls, now, Sequence, resolved, sent, outcome,
                 seqGhost>>

\* ------------------------------------------------------ the specification
Next ==
  \/ Start
  \/ Stop
  \/ Tick
  \/ DryRunStep
  \/ OnceSpawn
  \/ OnceWait
  \/ ContSpawn
  \/ ContWait
  \/ \E u \in UnitIds : UnitAcquire(u)
  \/ \E u \in UnitIds : UnitExec(u)
  \/ \E u \in UnitIds : UnitSeqStore(u)
  \/ \E u \in UnitIds : UnitSeqRet(u)
  \/ \E u \in UnitIds : UnitSendDone(u)
  \/ \E w \in WorkerIds : WorkerTop(w)
  \/ \E w \in WorkerIds : WorkerScan(w)
  \/ \E w \in WorkerIds : WorkerSpawn(w)

Spec == Init /\ [][Next]_vars

\* The goroutines run: the one that called Start, the dispatch goroutines
\* and the workers each take their next step when it stays possible.  Stop
\* and the clock are the environment's.
Fairness ==
  /\ WF_vars(DryRunStep \/ OnceSpawn \/ OnceWait \/ ContSpawn \/ ContWait)
  /\ \A u \in UnitIds :
       WF_vars(UnitAcquire(u) \/ UnitExec(u) \/ UnitSeqStore(u)
                 \/ UnitSeqRet(u) \/ UnitSendDone(u))
  /\ \A w \in WorkerIds :
       WF_vars(WorkerTop(w) \/ WorkerScan(w) \/ WorkerSpawn(w))

FairSpec == Spec /\ Fairness

\* The gated runs under fair scheduling: a run-once or continuous run whose
\* definitions are due at every poll (relative schedules, whose templates
\* resolve or fail).  Neither the clock, which only an epoch is compared
\* with, nor seq, which these definitions do not call, takes a step.
DueLists ==
  {l \in RequestLists : \A i \in 1..Len(l) : l[i] \in {RelPlain, RelBad}}

GatedInit == Init /\ ~dryRun /\ requests \in DueLists

GatedNext ==
  \/ Start
  \/ Stop
  \/ OnceSpawn
  \/ OnceWait
  \/ ContSpawn
  \/ ContWait
  \/ \E u \in UnitIds : UnitAcquire(u)
  \/ \E u \in UnitIds : UnitExec(u)
  \/ \E u \in UnitIds : UnitSendDone(u)
  \/ \E w \in WorkerIds : WorkerTop(w)
  \/ \E w \in WorkerIds : WorkerScan(w)
  \/ \E w \in WorkerIds : WorkerSpawn(w)

GatedFairSpec == GatedInit /\ [][GatedNext]_vars /\ Fairness

\* ------------------------------------------------------------------- main
\* main with -config and neither -once nor -dry-run: the goroutine that
\* waits for SIGINT or SIGTERM, and the call of Start.  input.handler is the
\* position of that goroutine.  The definitions are those no poll finds
\* due, so that only Stop can end the run.
IdleLists ==
  {l \in RequestLists : \A i \in 1..Len(l) : l[i].sched \notin {"relative", "epoch"}}

MainInit ==
  /\ requests \in IdleLists
  /\ once = FALSE /\ dryRun = FALSE
  /\ workers \in 1..MaxWorkers
  /\ concurrency \in 1..MaxConcurrency
  /\ running = FALSE /\ cancelled = FALSE
  /\ startPc = "idle" /\ startIdx = 0 /\ startErr = "none"
  /\ wg = 0 /\ sem = 0 /\ sendq = <<>>
  /\ units = [u \in UnitIds |-> IdleUnit]
  /\ wpc = [w \in WorkerIds |-> "none"]
  /\ widx = [w \in WorkerIds |-> 0]
  /\ polls = 0 /\ now = 0 /\ Sequence = 0
  /\ resolved = [i \in 1..Len(requests) |-> 0]
  /\ sent = [i \in 1..Len(requests) |-> 0]
  /\ outcome = [i \in 1..Len(requests) |-> "none"]
  /\ seqCalls = 0 /\ seqSeen = {}
  /\ input = [kind |-> "main", handler |-> "waiting"]
  /\ output = NoCall

\* The goroutine of main: `<-sigChan`, then scheduler.Stop()
SignalHandler ==
  /\ input.kind = "main"
  /\ input.handler = "waiting"
  /\ input' = [input EXCEPT !.handler = "stopped"]
  /\ IF running
       THEN cancelled' = TRUE /\ running' = FALSE
       ELSE UNCHANGED <<cancelled, running>>
  /\ UNCHANGED <<cfgVars, output, startPc, startIdx, startErr, wg, sem, sendq, units,
                 wpc, widx, polls, now, Sequence, resolved, sent, outcome,
                 seqGhost>>

MainNext ==
  \/ SignalHandler
  \/ Start
  \/ ContSpawn
  \/ ContWait
  \/ \E w \in WorkerIds : WorkerTop(w)
  \/ \E w \in WorkerIds : WorkerScan(w)

\* main calls Start as soon as it has started the goroutine; the signal is
\* the environment's
MainFairSpec ==
  MainInit /\ [][MainNext]_vars /\ Fairness /\ WF_vars(Start)

\* ================================================== package spec, called
\* ================================================== on its own
\* ------------------------------------------------- strings and templates
\* A string is the sequence of its characters (of its bytes, where the code
\* indexes it).  Inside a template action "f" stands for a call of a
\* function of the library, whose output is the text "1", and "x" for the
\* name of no function.
Open == <<"{", "{">>
Close == <<"}", "}">>

\* strings.Contains
Contains(s, sub) ==
  \E i \in 1..(Len(s) - Len(sub) + 1) : SubSeq(s, i, i + Len(sub) - 1) = sub

\* A test for the opening marker alone
IsTemplateStringOpenOnly(s) == Contains(s, Open)

\* IsTemplateString
IsTemplateString(s) == Contains(s, Open) /\ Contains(s, Close)

\* strings.Index from position i on; 0 when sub does not occur
IndexFrom(s, sub, i) ==
  LET hits == {j \in i..(Len(s) - Len(sub) + 1) : SubSeq(s, j, j + Len(sub) - 1) = sub}
  IN IF hits = {} THEN 0 ELSE CHOOSE j \in hits : \A k \in hits : j <= k

\* The content of an action parses and executes: a pipeline of library calls
ActionOK(c) == c # <<>> /\ \A i \in 1..Len(c) : c[i] = "f"

TemplateError == [err |-> TRUE, out |-> <<>>]

\* TemplateEngine.EvaluateTemplate: template.Parse and Execute.  Text
\* outside the actions is copied; an action that is not closed, is empty or
\* names no function is an error, and the result is then the empty string.
RECURSIVE EvaluateTemplate(_)
EvaluateTemplate(s) ==
  IF s = <<>> THEN [err |-> FALSE, out |-> <<>>]
  ELSE IF Len(s) >= 2 /\ SubSeq(s, 1, 2) = Open
    THEN LET e == IndexFrom(s, Close, 3)
         IN IF e = 0 \/ ~ActionOK(SubSeq(s, 3, e - 1))
              THEN TemplateError
              ELSE LET rest == EvaluateTemplate(SubSeq(s, e + 2, Len(s)))
                   IN IF rest.err THEN TemplateError
                      ELSE [err |-> FALSE, out |-> <<"1">> \o rest.out]
    ELSE LET rest == EvaluateTemplate(Tail(s))
         IN IF rest.err THEN TemplateError
            ELSE [err |-> FALSE, out |-> <<Head(s)>> \o rest.out]

\* ------------------------------------------------------------ body values
\* An interface{} value of a request body: its dynamic type t and, by type,
\* the string s, the wrapper's template and isTemplate, or the entries of a
\* map (in the order range visits them) or the items of a list (k unused).
Value(t, s, tmpl, isT, kids) == [t |-> t, s |-> s, tmpl |-> tmpl, isT |-> isT, kids |-> kids]

NilValue == Value("nil", <<>>, <<>>, FALSE, <<>>)
Number == Value("number", <<>>, <<>>, FALSE, <<>>)
Str(s) == Value("string", s, <<>>, FALSE, <<>>)
MapOf(entries) == Value("map", <<>>, <<>>, FALSE, entries)
ListOf(items) ==
  Value("list", <<>>, <<>>, FALSE, [i \in DOMAIN items |-> [k |-> <<>>, v |-> items[i]]])
DynamicString(value, tmpl, isT) == Value("DynamicString", value, tmpl, isT, <<>>)
DynamicAny(value, tmpl, isT) == Value("DynamicAny", value, tmpl, isT, <<>>)

\* An error is the chain of its wrapped messages, outermost first; nil is <<>>
NoError == <<>>
Ok(v) == [err |-> NoError, val |-> v]
Failed(msg, cause) == [err |-> <<msg>> \o cause, val |-> NilValue]

\* `return e.engine.EvaluateTemplate(...)`: the string result with the error
Evaluated(s) ==
  LET r == EvaluateTemplate(s)
  IN [err |-> IF r.err THEN <<"template">> ELSE NoError, val |-> Str(r.out)]

\* resolved[resolvedKey] = resolvedValue
MapStore(m, k, v) ==
  IF \E i \in DOMAIN m : m[i].k = k
    THEN [i \in DOMAIN m |-> IF m[i].k = k THEN [k |-> k, v |-> v] ELSE m[i]]
    ELSE Append(m, [k |-> k, v |-> v])

\* Evaluator.resolveValue
RECURSIVE resolveValue(_), resolveMap(_, _), resolveList(_, _)
resolveValue(v) ==
  CASE v.t = "nil" -> Ok(NilValue)
    [] v.t = "string" -> IF IsTemplateString(v.s) THEN Evaluated(v.s) ELSE Ok(v)
    [] v.t = "map" -> resolveMap(v.kids, <<>>)
    [] v.t = "list" -> resolveList(v.kids, <<>>)
    [] v.t = "DynamicString" -> IF v.isT THEN Evaluated(v.tmpl) ELSE Ok(Str(v.s))
    [] v.t = "DynamicAny" -> IF v.isT THEN Evaluated(v.tmpl) ELSE Ok(Str(v.s))
    [] OTHER -> Ok(v)

\* resolveValue, case map[string]interface{}: the entries left, the map so far
resolveMap(entries, done) ==
  IF entries = <<>> THEN Ok(MapOf(done))
  ELSE LET key == Head(entries).k
           rk == IF IsTemplateString(key) THEN EvaluateTemplate(key)
                 ELSE [err |-> FALSE, out |-> key]
           rv == resolveValue(Head(entries).v)
       IN IF rk.err THEN Failed("failed to resolve map key template", <<"template">>)
          ELSE IF rv.err # NoError THEN Failed("failed to resolve map value", rv.err)
          ELSE resolveMap(Tail(entries), MapStore(done, rk.out, rv.val))

\* resolveValue, case []interface{}: the items left, the list so far
resolveList(items, done) ==
  IF items = <<>> THEN Ok(Value("list", <<>>, <<>>, FALSE, done))
  ELSE LET rv == resolveValue(Head(items).v)
       IN IF rv.err # NoError THEN Failed("failed to resolve array item", rv.err)
          ELSE resolveList(Tail(items), Append(done, [k |-> <<>>, v |-> rv.val]))

\* --------------------------------------------------------------- integers
\* A signed integer of the given width, as a conversion or an overflowing
\* operation leaves it
Wrap(x, bits) == ((x + 2^(bits - 1)) % 2^bits) - 2^(bits - 1)
MaxInt(bits) == 2^(bits - 1) - 1

\* Go's %: the remainder has the sign of the dividend
GoRem(a, b) ==
  LET m == IF b < 0 THEN 0 - b ELSE b
  IN IF a >= 0 THEN a % m ELSE 0 - ((0 - a) % m)

\* A *T field: <<>> is nil, <<x>> points to x
IsSet(p) == p # <<>>
Deref(p) == p[1]

\* -------------------------------------------------------------- durations
Digits == <<"0", "1", "2", "3", "4", "5", "6", "7", "8", "9">>
IsDigit(c) == \E i \in DOMAIN Digits : Digits[i] = c
DigitVal(c) == (CHOOSE i \in DOMAIN Digits : Digits[i] = c) - 1

\* The units of time.ParseDuration the model writes, in quanta of the clock
UnitVal(c) == IF c = "s" THEN 1 ELSE IF c = "m" THEN 60 ELSE 0

\* Length of the longest prefix of s made of digits
RECURSIVE DigitPrefix(_)
DigitPrefix(s) ==
  IF s = <<>> \/ ~IsDigit(Head(s)) THEN 0 ELSE 1 + DigitPrefix(Tail(s))

\* The decimal number written by the digits of s
RECURSIVE Decimal(_)
Decimal(s) ==
  IF s = <<>> THEN 0 ELSE 10 * Decimal(SubSeq(s, 1, Len(s) - 1)) + DigitVal(s[Len(s)])

DurationError == [err |-> TRUE, d |-> 0]

\* time.ParseDuration after the sign: one or more groups of a number and a
\* unit; a missing number, a missing or unknown unit and an overflow of
\* int64 are errors
RECURSIVE ParseGroups(_)
ParseGroups(s) ==
  IF s = <<>> THEN [err |-> FALSE, d |-> 0]
  ELSE LET n == DigitPrefix(s)
       IN IF n = 0 \/ n = Len(s) \/ UnitVal(s[n + 1]) = 0 THEN DurationError
          ELSE LET rest == ParseGroups(SubSeq(s, n + 2, Len(s)))
                   d == Decimal(SubSeq(s, 1, n)) * UnitVal(s[n + 1])
               IN IF rest.err \/ d + rest.d > MaxInt(WideBits) THEN DurationError
                  ELSE [err |-> FALSE, d |-> d + rest.d]

\* time.ParseDuration
ParseDuration(s) ==
  LET signed == s # <<>> /\ Head(s) \in {"+", "-"}
      body == IF signed THEN Tail(s) ELSE s
      r == ParseGroups(body)
  IN IF body = <<>> THEN DurationError
     ELSE IF body = <<"0">> THEN [err |-> FALSE, d |-> 0]
     ELSE IF r.err THEN DurationError
     ELSE [err |-> FALSE, d |-> IF signed /\ Head(s) = "-" THEN 0 - r.d ELSE r.d]

\* strconv.ParseInt(s, 10, 64)
ParseInt(s) ==
  LET signed == s # <<>> /\ Head(s) \in {"+", "-"}
      body == IF signed THEN Tail(s) ELSE s
  IN IF body = <<>> \/ DigitPrefix(body) # Len(body) \/ Decimal(body) > MaxInt(WideBits)
       THEN [err |-> TRUE, n |-> 0]
       ELSE [err |-> FALSE, n |-> IF signed /\ Head(s) = "-" THEN 0 - Decimal(body) ELSE Decimal(body)]

\* TemplateEngine.EvaluateTemplateToInt64
EvaluateTemplateToInt64(tmpl) ==
  LET r == EvaluateTemplate(tmpl)
  IN IF r.err THEN [err |-> TRUE, n |-> 0] ELSE ParseInt(r.out)

\* ----------------------------------------------------------------- jitter
\* TemplateEngine.randInt, for an int of `bits` bits and a context whose
\* Seed is `seed`: the values it can return, or a panic (rand.Intn of a
\* number that is not positive, a division by zero).  Without a seed the
\* value is computed from the reading of the clock converted to int.
randInt(min, max, bits, seed) ==
  IF min >= max THEN {[panic |-> FALSE, n |-> min]}
  ELSE LET span == Wrap(max - min + 1, bits)
       IN IF seed # 0
            THEN IF span <= 0 THEN {[panic |-> TRUE, n |-> 0]}
                 ELSE {[panic |-> FALSE, n |-> Wrap(min + k, bits)] : k \in 0..(span - 1)}
            ELSE IF span = 0 THEN {[panic |-> TRUE, n |-> 0]}
                 ELSE {[panic |-> FALSE, n |-> Wrap(min + GoRem(Wrap(c, bits), span), bits)] :
                         c \in 0..MaxClock}

\* What a schedule computation returns: an instant and a nil error, or the
\* zero time and an error; or it panics
Instant(t) == [err |-> NoError, zero |-> FALSE, at |-> t, panic |-> FALSE]
NoInstant(msg) == [err |-> <<msg>>, zero |-> TRUE, at |-> 0, panic |-> FALSE]
Panic == [err |-> NoError, zero |-> TRUE, at |-> 0, panic |-> TRUE]

\* TemplateEngine.jitter
jitter(base, duration, bits, seed) ==
  LET p == ParseDuration(duration)
  IN IF p.err THEN {Instant(base)}
     ELSE {IF r.panic THEN Panic ELSE Instant(base + r.n) :
             r \in randInt(0, Wrap(p.d, bits), bits, seed)}

\* The byte a string is compared with in `jitterStr[0] == '±'`: the rune
\* constant U+00B1 converted to byte.  The UTF-8 encoding of "±" is the two
\* bytes xC2 xB1.
PlusMinusByte == "xB1"

\* The duration ScheduleEngine.applyJitter and ValidateSchedule parse from a
\* jitter string
JitterDuration(jitterStr) ==
  IF Len(jitterStr) > 1 /\ jitterStr[1] = PlusMinusByte
    THEN ParseDuration(Tail(jitterStr))
    ELSE ParseDuration(jitterStr)

\* ScheduleEngine.applyJitter
applyJitter(baseTime, jitterStr) ==
  LET p == JitterDuration(jitterStr)
  IN IF p.err \/ p.d <= 0 THEN {Instant(baseTime)}
     ELSE {Instant(baseTime + (c % p.d)) : c \in 0..MaxClock}

\* -------------------------------------------------------------- schedules
\* A ScheduleSpec: five pointer fields
ScheduleSpec(epoch, relative, template, cron, jit) ==
  [Epoch |-> epoch, Relative |-> relative, Template |-> template, Cron |-> cron,
   Jitter |-> jit]

\* cron.Parser.Parse accepts the pattern; Schedule.Next is the first start
\* of a minute after `now`
CronParses(s) == s = <<"*">>
CronNext(t) == ((t \div 60) + 1) * 60

\* A computeScheduledTime that computes the next run of a cron pattern
computeScheduledTimeWithCron(schedule, t, bits, seed) ==
  IF IsSet(schedule.Cron) /\ CronParses(Deref(schedule.Cron))
    THEN {Instant(CronNext(t))}
    ELSE {NoInstant("no valid schedule strategy found")}

\* Evaluator.computeScheduledTime, the clock reading `now`
computeScheduledTime(schedule, t, bits, seed) ==
  IF IsSet(schedule.Epoch) THEN {Instant(Deref(schedule.Epoch))}
  ELSE IF IsSet(schedule.Relative)
    THEN LET p == ParseDuration(Deref(schedule.Relative))
         IN IF p.err THEN {NoInstant("invalid relative duration")}
            ELSE IF IsSet(schedule.Jitter)
              THEN jitter(t + p.d, Deref(schedule.Jitter), bits, seed)
              ELSE {Instant(t + p.d)}
  ELSE IF IsSet(schedule.Template)
    THEN LET e == EvaluateTemplateToInt64(Deref(schedule.Template))
         IN IF e.err THEN {NoInstant("failed to evaluate schedule template")}
            ELSE IF IsSet(schedule.Jitter)
              THEN jitter(e.n, Deref(schedule.Jitter), bits, seed)
              ELSE {Instant(e.n)}
  ELSE IF IsSet(schedule.Cron) THEN {NoInstant("cron scheduling not yet implemented")}
  ELSE {NoInstant("no valid schedule strategy found")}

\* The end of ComputeNextRun and ComputeNextRunWithTemplate
JitterIfSet(baseTime, schedule) ==
  IF IsSet(schedule.Jitter) THEN applyJitter(baseTime, Deref(schedule.Jitter))
  ELSE {Instant(baseTime)}

\* A ComputeNextRun without the return for an epoch in the past: the jitter
\* is added to every epoch
ComputeNextRunJittersPast(t, schedule) ==
  IF IsSet(schedule.Epoch) THEN JitterIfSet(Deref(schedule.Epoch), schedule)
  ELSE {NoInstant("no valid schedule strategy found")}

\* A ComputeNextRun that drops the error of time.ParseDuration: a malformed
\* relative duration counts as no duration
ComputeNextRunDropsError(t, schedule) ==
  IF IsSet(schedule.Epoch)
    THEN IF Deref(schedule.Epoch) < t THEN {Instant(Deref(schedule.Epoch))}
         ELSE JitterIfSet(Deref(schedule.Epoch), schedule)
  ELSE IF IsSet(schedule.Relative)
    THEN JitterIfSet(t + ParseDuration(Deref(schedule.Relative)).d, schedule)
  ELSE {NoInstant("no valid schedule strategy found")}

\* ScheduleEngine.ComputeNextRun
ComputeNextRun(t, schedule) ==
  IF IsSet(schedule.Epoch)
    THEN IF Deref(schedule.Epoch) < t THEN {Instant(Deref(schedule.Epoch))}
         ELSE JitterIfSet(Deref(schedule.Epoch), schedule)
  ELSE IF IsSet(schedule.Relative)
    THEN LET p == ParseDuration(Deref(schedule.Relative))
         IN IF p.err THEN {NoInstant("invalid relative duration")}
            ELSE JitterIfSet(t + p.d, schedule)
  ELSE IF IsSet(schedule.Template)
    THEN {NoInstant("template scheduling requires template evaluation context")}
  ELSE IF IsSet(schedule.Cron)
    THEN IF ~CronParses(Deref(schedule.Cron)) THEN {NoInstant("invalid cron expression")}
         ELSE JitterIfSet(CronNext(t), schedule)
  ELSE {NoInstant("no valid schedule strategy found")}

\* ScheduleEngine.ComputeNextRunWithTemplate
ComputeNextRunWithTemplate(t, schedule) ==
  IF ~IsSet(schedule.Epoch) /\ ~IsSet(schedule.Relative) /\ IsSet(schedule.Template)
    THEN LET e == EvaluateTemplateToInt64(Deref(schedule.Template))
         IN IF e.err THEN {NoInstant("failed to evaluate schedule template")}
            ELSE JitterIfSet(e.n, schedule)
    ELSE ComputeNextRun(t, schedule)

\* The number of strategies a ScheduleSpec sets
StrategyCount(schedule) ==
  (IF IsSet(schedule.Epoch) THEN 1 ELSE 0) + (IF IsSet(schedule.Relative) THEN 1 ELSE 0)
    + (IF IsSet(schedule.Template) THEN 1 ELSE 0) + (IF IsSet(schedule.Cron) THEN 1 ELSE 0)

\* A validation that accepts a description setting at least one strategy
ValidateAtLeastOne(schedule) ==
  IF StrategyCount(schedule) < 1
    THEN <<"exactly one schedule strategy must be specified">> ELSE NoError

\* ScheduleSpec.Validate
Validate(schedule) ==
  IF StrategyCount(schedule) # 1
    THEN <<"exactly one schedule strategy must be specified">> ELSE NoError

\* ScheduleEngine.ValidateSchedule
ValidateSchedule(schedule) ==
  IF StrategyCount(schedule) # 1
    THEN <<"exactly one schedule strategy must be specified">>
  ELSE IF IsSet(schedule.Epoch) /\ Deref(schedule.Epoch) < 0
    THEN <<"epoch timestamp must be non-negative">>
  ELSE IF IsSet(schedule.Relative) /\ ParseDuration(Deref(schedule.Relative)).err
    THEN <<"invalid relative duration">>
  ELSE IF IsSet(schedule.Cron) /\ ~CronParses(Deref(schedule.Cron))
    THEN <<"invalid cron expression">>
  ELSE IF IsSet(schedule.Jitter) /\ JitterDuration(Deref(schedule.Jitter)).err
    THEN <<"invalid jitter duration">>
  ELSE NoError

\* -------------------------------------------------------- EvaluateRequest
\* A ScheduledRequest as EvaluateRequest reads it: the URL, the headers (in
\* the order range visits them), the body and the schedule
Request(url, headers, body, schedule) ==
  [URL |-> url, Headers |-> headers, Body |-> body, Schedule |-> schedule]

\* A *ResolvedRequest; nil is NoRequest
ResolvedRequest(url, headers, body, at) ==
  [nil |-> FALSE, URL |-> url, Headers |-> headers, Body |-> body, ScheduledFor |-> at]
NoRequest ==
  [nil |-> TRUE, URL |-> <<>>, Headers |-> <<>>, Body |-> NilValue, ScheduledFor |-> 0]

\* An EvaluateRequest that hands back what it had resolved before the error
RequestFailedPartial(partial, err) == [resolved |-> partial, err |-> err, panic |-> FALSE]

\* `return nil, fmt.Errorf(...)` of EvaluateRequest; `partial` is the local
\* variable resolved at that point
RequestFailed(partial, err) == [resolved |-> NoRequest, err |-> err, panic |-> FALSE]

\* A string of a request as resolution leaves it
ResolveString(s) ==
  IF IsTemplateString(s) THEN EvaluateTemplate(s) ELSE [err |-> FALSE, out |-> s]

\* EvaluateRequest's loop over req.HTTP.Headers: the headers left, the map
\* so far
RECURSIVE resolveHeaders(_, _)
resolveHeaders(headers, done) ==
  IF headers = <<>> THEN [err |-> NoError, val |-> done]
  ELSE LET rk == ResolveString(Head(headers).k)
           rv == ResolveString(Head(headers).v)
       IN IF rk.err
            THEN [err |-> <<"failed to resolve header key template", "template">>, val |-> done]
          ELSE IF rv.err
            THEN [err |-> <<"failed to resolve header value template", "template">>, val |-> done]
          ELSE resolveHeaders(Tail(headers), MapStore(done, rk.out, rv.out))

\* Evaluator.EvaluateRequest: what it can return
EvaluateRequest(req, t, bits, seed) ==
  LET url == ResolveString(req.URL)
      hs == resolveHeaders(req.Headers, <<>>)
      body == IF req.Body.t # "nil" THEN resolveValue(req.Body) ELSE Ok(NilValue)
  IN IF url.err
       THEN {RequestFailed(ResolvedRequest(req.URL, <<>>, NilValue, 0),
                           <<"failed to resolve URL template", "template">>)}
     ELSE IF hs.err # NoError
       THEN {RequestFailed(ResolvedRequest(url.out, hs.val, NilValue, 0), hs.err)}
     ELSE IF body.err # NoError
       THEN {RequestFailed(ResolvedRequest(url.out, hs.val, NilValue, 0),
                           <<"failed to resolve body">> \o body.err)}
     ELSE {IF s.panic
             THEN [resolved |-> NoRequest, err |-> NoError, panic |-> TRUE]
           ELSE IF s.err # NoError
             THEN RequestFailed(ResolvedRequest(url.out, hs.val, body.val, 0),
                                <<"failed to compute scheduled time">> \o s.err)
           ELSE [resolved |-> ResolvedRequest(url.out, hs.val, body.val, s.at),
                 err |-> NoError, panic |-> FALSE] :
             s \in computeScheduledTime(req.Schedule, t, bits, seed)}

\* ------------------------------------------- the functions called alone
schedulerVars == <<requests, workers, concurrency, once, dryRun, running, cancelled,
                   startPc, startIdx, startErr, wg, sem, sendq, units, wpc, widx,
                   polls, now, Sequence, resolved, sent, outcome, seqCalls, seqSeen>>

\* No scheduler runs: a scheduler of one definition that is never started
NoScheduler ==
  /\ requests = <<RelPlain>>
  /\ workers = 1 /\ concurrency = 1 /\ once = FALSE /\ dryRun = FALSE
  /\ running = FALSE /\ cancelled = FALSE
  /\ startPc = "idle" /\ startIdx = 0 /\ startErr = "none"
  /\ wg = 0 /\ sem = 0 /\ sendq = <<>>
  /\ units = [u \in UnitIds |-> IdleUnit]
  /\ wpc = [w \in WorkerIds |-> "none"]
  /\ widx = [w \in WorkerIds |-> 0]
  /\ polls = 0 /\ now = 0 /\ Sequence = 0
  /\ resolved = <<0>> /\ sent = <<0>> /\ outcome = <<"none">>
  /\ seqCalls = 0 /\ seqSeen = {}

\* Strings of a request
Plain == <<"a">>
OneBrace == <<"{", "{", "a">>
Tpl == <<"a", "{", "{", "f", "}", "}">>
TplNumber == <<"{", "{", "f", "}", "}">>
TplBad == <<"{", "{", "x", "}", "}">>
TplUnclosed == <<"}", "}", "{", "{">>

Header(k, v) == [k |-> k, v |-> v]

TestURLs == {Plain, OneBrace, Tpl, TplBad}

TestHeaders ==
  {<<>>, <<Header(Plain, Plain)>>, <<Header(Tpl, OneBrace)>>, <<Header(TplBad, Plain)>>,
   <<Header(Plain, TplUnclosed)>>, <<Header(Plain, Tpl), Header(OneBrace, TplNumber)>>,
   <<Header(Plain, Plain), Header(TplBad, Plain)>>}

TestBodies ==
  {NilValue, Number, Str(Plain), Str(OneBrace), Str(Tpl), Str(TplBad),
   MapOf(<<Header(Plain, Str(Tpl))>>),
   MapOf(<<Header(Tpl, Str(OneBrace)), Header(Plain, Number)>>),
   MapOf(<<Header(TplBad, Str(Plain))>>),
   MapOf(<<Header(Plain, ListOf(<<Str(Plain), Str(TplUnclosed)>>))>>),
   ListOf(<<Str(OneBrace), Str(Tpl), MapOf(<<Header(OneBrace, Str(Plain))>>)>>),
   ListOf(<<Str(Plain), Str(TplBad)>>),
   DynamicString(Plain, <<>>, FALSE), DynamicString(<<>>, Tpl, TRUE),
   DynamicString(<<>>, TplBad, TRUE), DynamicString(Tpl, <<>>, FALSE),
   DynamicAny(TplNumber, <<>>, FALSE), DynamicAny(<<>>, TplNumber, TRUE),
   ListOf(<<DynamicString(TplBad, <<>>, FALSE)>>)}

TestRequestSchedules ==
  {ScheduleSpec(<<1>>, <<>>, <<>>, <<>>, <<>>),
   ScheduleSpec(<<>>, <<<<"5", "m">>>>, <<>>, <<>>, <<>>),
   ScheduleSpec(<<>>, <<>>, <<>>, <<<<"*">>>>, <<>>)}

ResolutionInit ==
  /\ NoScheduler
  /\ input \in {[kind |-> "request", req |-> Request(u, h, b, s)] :
                  u \in TestURLs, h \in TestHeaders, b \in TestBodies,
                  s \in TestRequestSchedules}
  /\ output = NoCall

\* A call of Evaluator.EvaluateRequest (no jitter is set: the build and the
\* seed are of no account)
CallEvaluateRequest ==
  /\ output.kind = "none"
  /\ \E r \in EvaluateRequest(input.req, 0, WideBits, 0) :
       output' = [kind |-> "EvaluateRequest", resolved |-> r.resolved, err |-> r.err,
                  val |-> NilValue]
  /\ UNCHANGED <<schedulerVars, input>>

\* A call of Evaluator.resolveValue on the body
CallResolveValue ==
  /\ output.kind = "none"
  /\ LET r == resolveValue(input.req.Body)
     IN output' = [kind |-> "resolveValue", resolved |-> NoRequest, err |-> r.err,
                   val |-> r.val]
  /\ UNCHANGED <<schedulerVars, input>>

ResolutionNext == CallEvaluateRequest \/ CallResolveValue

ResolutionSpec == ResolutionInit /\ [][ResolutionNext]_vars

\* ------------------------------------------- schedule computation, alone
\* Duration strings, one element a byte
TwoSeconds == <<"2", "s">>
FiveMinutes == <<"5", "m">>
NotADuration == <<"x">>
\* The longest duration that parses on the build of WideBits bits
LongestDuration == <<"5", "1", "1", "s">>

\* "±" as a Go source file or a YAML or JSON document in UTF-8 holds it
PlusMinus == <<"xC2", PlusMinusByte>>

\* Jitter strings: a magnitude, the magnitude after "±" in UTF-8, after the
\* single byte xB1, after a sign, and strings ParseDuration rejects
TestJitters ==
  {TwoSeconds, PlusMinus \o TwoSeconds, <<PlusMinusByte>> \o TwoSeconds,
   <<"+">> \o TwoSeconds, <<"-">> \o TwoSeconds, NotADuration, LongestDuration,
   PlusMinus \o FiveMinutes}

\* Descriptions setting any subset of the four strategies
AnyStrategies ==
  {ScheduleSpec(e, r, t, c, <<>>) :
     e \in {<<>>, <<3>>}, r \in {<<>>, <<TwoSeconds>>},
     t \in {<<>>, <<TplNumber>>}, c \in {<<>>, <<<<"*">>>>}}

\* Descriptions setting one strategy, with a value validation or computation
\* rejects, and with a longer duration
OneStrategy ==
  {ScheduleSpec(<<0 - 1>>, <<>>, <<>>, <<>>, <<>>),
   ScheduleSpec(<<>>, <<FiveMinutes>>, <<>>, <<>>, <<>>),
   ScheduleSpec(<<>>, <<NotADuration>>, <<>>, <<>>, <<>>),
   ScheduleSpec(<<>>, <<>>, <<TplBad>>, <<>>, <<>>),
   ScheduleSpec(<<>>, <<>>, <<Plain>>, <<>>, <<>>),
   ScheduleSpec(<<>>, <<>>, <<>>, <<<<"?">>>>, <<>>)}

TestSchedules ==
  {[s EXCEPT !.Jitter = j] :
     s \in AnyStrategies \cup OneStrategy, j \in {<<>>} \cup {<<x>> : x \in TestJitters}}

\* Reference times: before, at and after the epoch of the descriptions
TestTimes == {1, 3, 4}

\* The result of a schedule computation as the caller sees it
Computed(fn, r) ==
  [kind |-> fn, err |-> r.err, zero |-> r.zero, at |-> r.at, panic |-> r.panic]

\* The result of a validation
Validated(fn, err) == [kind |-> fn, err |-> err, zero |-> TRUE, at |-> 0, panic |-> FALSE]

SchedulingInit ==
  /\ NoScheduler
  /\ input \in {[kind |-> "schedule", schedule |-> s, t |-> t, bits |-> b, seed |-> sd] :
                  s \in TestSchedules, t \in TestTimes, b \in {NarrowBits, WideBits},
                  sd \in {0, 1}}
  /\ output = NoCall

\* ScheduleEngine.ComputeNextRun(now, schedule)
CallComputeNextRun ==
  /\ output.kind = "none"
  /\ \E r \in ComputeNextRun(input.t, input.schedule) :
       output' = Computed("ComputeNextRun", r)
  /\ UNCHANGED <<schedulerVars, input>>

\* ScheduleEngine.ComputeNextRunWithTemplate(now, schedule, templateEngine)
CallComputeNextRunWithTemplate ==
  /\ output.kind = "none"
  /\ \E r \in ComputeNextRunWithTemplate(input.t, input.schedule) :
       output' = Computed("ComputeNextRunWithTemplate", r)
  /\ UNCHANGED <<schedulerVars, input>>

\* Evaluator.computeScheduledTime(schedule), the context's clock reading t
CallComputeScheduledTime ==
  /\ output.kind = "none"
  /\ \E r \in computeScheduledTime(input.schedule, input.t, input.bits, input.seed) :
       output' = Computed("computeScheduledTime", r)
  /\ UNCHANGED <<schedulerVars, input>>

\* ScheduleEngine.applyJitter(baseTime, jitterStr), the base being t
CallApplyJitter ==
  /\ output.kind = "none"
  /\ IsSet(input.schedule.Jitter)
  /\ \E r \in applyJitter(input.t, Deref(input.schedule.Jitter)) :
       output' = Computed("applyJitter", r)
  /\ UNCHANGED <<schedulerVars, input>>

\* TemplateEngine.jitter(base, duration), the base being t
CallJitter ==
  /\ output.kind = "none"
  /\ IsSet(input.schedule.Jitter)
  /\ \E r \in jitter(input.t, Deref(input.schedule.Jitter), input.bits, input.seed) :
       output' = Computed("jitter", r)
  /\ UNCHANGED <<schedulerVars, input>>

\* ScheduleSpec.Validate()
CallValidate ==
  /\ output.kind = "none"
  /\ output' = Validated("Validate", Validate(input.schedule))
  /\ UNCHANGED <<schedulerVars, input>>

\* ScheduleEngine.ValidateSchedule(schedule)
CallValidateSchedule ==
  /\ output.kind = "none"
  /\ output' = Validated("ValidateSchedule", ValidateSchedule(input.schedule))
  /\ UNCHANGED <<schedulerVars, input>>

SchedulingNext ==
  \/ CallComputeNextRun
  \/ CallComputeNextRunWithTemplate
  \/ CallComputeScheduledTime
  \/ CallApplyJitter
  \/ CallJitter
  \/ CallValidate
  \/ CallValidateSchedule

SchedulingSpec == SchedulingInit /\ [][SchedulingNext]_vars

\* ------------------------------------------ the random functions, alone
\* An EvaluationContext as the random functions read it: Seed, and
\* randSource, nil (<<>>) or a source in some state
Context(seed, src) == [Seed |-> seed, randSource |-> src]

\* mrand.NewSource(seed): the state of a new source is fixed by the seed
NewSource(seed) == seed % RandModulus

\* One step of a source: its next state, which is also the number drawn
SourceNext(st) == (5 * st + 3) % RandModulus

\* `if e.ctx.randSource == nil { e.ctx.randSource = mrand.New(...) }`
SourceOf(ctx) ==
  IF ctx.randSource = <<>> THEN NewSource(ctx.Seed) ELSE ctx.randSource[1]

\* What a call of a random function leaves: the context, the value
\* returned, or a panic
Drawn(ctx, n) == [ctx |-> ctx, n |-> n, panic |-> FALSE]
DrawPanics(ctx) == [ctx |-> ctx, n |-> 0, panic |-> TRUE]

\* TemplateEngine.randInt on a context, for an int of `bits` bits; c is the
\* reading of the clock, used when no seed is set
randIntOn(ctx, min, max, bits, c) ==
  IF min >= max THEN Drawn(ctx, min)
  ELSE LET span == Wrap(max - min + 1, bits)
       IN IF ctx.Seed # 0
            THEN IF span <= 0 THEN DrawPanics(Context(ctx.Seed, <<SourceOf(ctx)>>))
                 ELSE LET st == SourceNext(SourceOf(ctx))
                      IN Drawn(Context(ctx.Seed, <<st>>), Wrap(min + (st % span), bits))
            ELSE IF span = 0 THEN DrawPanics(ctx)
                 ELSE Drawn(ctx, Wrap(min + GoRem(Wrap(c, bits), span), bits))

\* TemplateEngine.randFloat on a context: the numerator of the fraction
\* returned, over RandModulus with a seed and over the largest clock
\* reading without
randFloatOn(ctx, c) ==
  IF ctx.Seed # 0
    THEN LET st == SourceNext(SourceOf(ctx))
         IN Drawn(Context(ctx.Seed, <<st>>), st)
    ELSE Drawn(ctx, c)

\* A SetSeed that keeps the random source of the old seed
SetSeedKeepsSource(ctx, seed) == Context(seed, ctx.randSource)

\* TemplateEngine.SetSeed
SetSeed(ctx, seed) == Context(seed, <<>>)

\* A call of a random function: randInt(min, max) or randFloat()
RandInt(min, max) == [fn |-> "randInt", min |-> min, max |-> max]
RandFloat == [fn |-> "randFloat", min |-> 0, max |-> 0]

\* The calls made: a range of several values, a reversed range, and the
\* widest range that starts at 0
TestCalls(bits) ==
  {RandInt(1, 3), RandInt(20, 10), RandInt(0, MaxInt(bits)), RandFloat}

\* The call on a context
CallOn(ctx, call, bits, c) ==
  IF call.fn = "randInt" THEN randIntOn(ctx, call.min, call.max, bits, c)
  ELSE randFloatOn(ctx, c)

\* Two engines, each on its own context.  output.script is the sequence of
\* calls both make; output.runs[x] lists, for engine x, the results since
\* its construction and since each of its calls of SetSeed.
Engines == {"one", "two"}

RandomInit ==
  /\ NoScheduler
  /\ input \in {[kind |-> "random", seed |-> s, bits |-> b, later |-> d] :
                  s \in 0..2, b \in {NarrowBits, WideBits}, d \in 0..1}
  /\ output = [kind |-> "random",
               ctx |-> [x \in Engines |-> Context(input.seed, <<>>)],
               runs |-> [x \in Engines |-> <<<<>>>>],
               script |-> <<>>]

\* The run engine x is in, and the position of its next call in the script
CurrentRun(x) == output.runs[x][Len(output.runs[x])]
NextCall(x) == Len(CurrentRun(x)) + 1

\* The reading of the clock at the next call of engine x: the clock moves on
\* with every call, and engine "two" may be constructed later than "one"
CallsMade(x) ==
  Len(output.runs[x][1]) + (IF Len(output.runs[x]) > 1 THEN Len(CurrentRun(x)) ELSE 0)
Reading(x) ==
  ((IF x = "two" THEN input.later ELSE 0) + CallsMade(x)) % (MaxClock + 1)

\* Engine x makes its next call: the one the script holds at that position,
\* or a further one that the script then holds
CallRandom(x) ==
  /\ output.kind = "random"
  /\ NextCall(x) <= MaxRandCalls
  /\ \E call \in TestCalls(input.bits) :
       /\ IF NextCall(x) <= Len(output.script)
            THEN call = output.script[NextCall(x)]
            ELSE TRUE
       /\ LET r == CallOn(output.ctx[x], call, input.bits, Reading(x))
              k == Len(output.runs[x])
          IN output' = [output EXCEPT
                          !.ctx[x] = r.ctx,
                          !.runs[x][k] = Append(@, [call |-> call, n |-> r.n, panic |-> r.panic]),
                          !.script = IF NextCall(x) <= Len(output.script)
                                       THEN @ ELSE Append(@, call)]
  /\ UNCHANGED <<schedulerVars, input>>

\* Engine x calls SetSeed with the seed of its construction, once
CallSetSeed(x) ==
  /\ output.kind = "random"
  /\ Len(output.runs[x]) = 1
  /\ output' = [output EXCEPT
                  !.ctx[x] = SetSeed(output.ctx[x], input.seed),
                  !.runs[x] = Append(@, <<>>)]
  /\ UNCHANGED <<schedulerVars, input>>

RandomNext ==
  \/ \E x \in Engines : CallRandom(x)
  \/ \E x \in Engines : CallSetSeed(x)

RandomSpec == RandomInit /\ [][RandomNext]_vars

\* ------------------------------------------------------ uuid, alone
\* The digits of %x
HexDigits == <<"0", "1", "2", "3", "4", "5", "6", "7",
               "8", "9", "a", "b", "c", "d", "e", "f">>

\* fmt's %x of a byte slice: two digits for every byte
RECURSIVE Hex(_)
Hex(bytes) ==
  IF bytes = <<>> THEN <<>>
  ELSE <<HexDigits[(Head(bytes) \div 16) + 1], HexDigits[(Head(bytes) % 16) + 1]>>
         \o Hex(Tail(bytes))

\* fmt's %d of an integer
RECURSIVE FormatNat(_)
FormatNat(n) ==
  IF n < 10 THEN <<Digits[n + 1]>>
  ELSE Append(FormatNat(n \div 10), Digits[(n % 10) + 1])
FormatInt(n) == IF n < 0 THEN <<"-">> \o FormatNat(0 - n) ELSE FormatNat(n)

\* b[lo:hi] of Go, on a sequence that counts from 1
Slice(b, lo, hi) == SubSeq(b, lo + 1, hi)

\* `b[6] = (b[6] & 0x0f) | 0x40` and `b[8] = (b[8] & 0x3f) | 0x80`
VersionBits(b) ==
  [b EXCEPT ![7] = (b[7] % 16) + 64, ![9] = (b[9] % 64) + 128]

\* TemplateEngine.uuid: ok tells whether rand.Read succeeded and filled
\* `bytes`; c is the reading of the clock and sequence is e.ctx.Sequence
uuid(ok, bytes, c, sequence) ==
  IF ~ok THEN FormatInt(c) \o <<"-">> \o FormatInt(sequence)
  ELSE LET b == VersionBits(bytes)
       IN Hex(Slice(b, 0, 4)) \o <<"-">> \o Hex(Slice(b, 4, 6)) \o <<"-">> \o
          Hex(Slice(b, 6, 8)) \o <<"-">> \o Hex(Slice(b, 8, 10)) \o <<"-">> \o
          Hex(Slice(b, 10, 16))

\* The sixteen bytes rand.Read may fill in: from a first byte on, in steps
TestBytes ==
  {[i \in 1..16 |-> (first + (i - 1) * step) % 256] :
     first \in {0, 171, 255}, step \in {0, 1, 17}}

UuidInit ==
  /\ NoScheduler
  /\ input \in {[kind |-> "uuid", ok |-> ok, bytes |-> b, c |-> c, sequence |-> q] :
                  ok \in BOOLEAN, b \in TestBytes, c \in 0..MaxClock, q \in 0..2}
  /\ output = NoCall

CallUuid ==
  /\ input.kind = "uuid"
  /\ output.kind = "none"
  /\ output' = [kind |-> "uuid",
                s |-> uuid(input.ok, input.bytes, input.c, input.sequence)]
  /\ UNCHANGED <<schedulerVars, input>>

UuidNext == CallUuid

UuidSpec == UuidInit /\ [][UuidNext]_vars

\* ------------------------------------------------- loading a configuration
\* A ScheduledRequest as validation reads it
ScheduledRequest(name, schedule, method, url) ==
  [Name |-> name, Schedule |-> schedule, HTTP |-> [Method |-> method, URL |-> url]]

\* strings.ToUpper on the method names written here
ToUpper(s) == IF s = "get" THEN "GET" ELSE IF s = "fetch" THEN "FETCH" ELSE s

validMethods == {"GET", "POST", "PUT", "PATCH", "DELETE", "HEAD", "OPTIONS", "TRACE"}

\* HttpRequestSpec.Validate
ValidateHTTP(h) ==
  IF h.Method = "" THEN <<"HTTP method is required">>
  ELSE IF h.URL = "" THEN <<"HTTP URL is required">>
  ELSE IF ToUpper(h.Method) \notin validMethods THEN <<"invalid HTTP method">>
  ELSE NoError

\* ScheduledRequest.Validate
ValidateRequest(r) ==
  IF r.Name = "" THEN <<"request name is required">>
  ELSE IF Validate(r.Schedule) # NoError THEN Validate(r.Schedule)
  ELSE ValidateHTTP(r.HTTP)

\* What LoadConfig returns
Loaded(reqs) == [err |-> NoError, requests |-> reqs]
LoadFailed(err) == [err |-> err, requests |-> <<>>]

\* A LoadConfig that leaves out the definitions that do not validate
LoadConfigSkipsInvalid(readOK, ext, parseOK, reqs) ==
  Loaded(SelectSeq(reqs, LAMBDA r : ValidateRequest(r) = NoError))

\* LoadConfig: readOK and parseOK tell whether os.ReadFile and yaml.Unmarshal
\* succeed, ext is the extension of the path in lower case, reqs is
\* config.Requests as parsed
LoadConfig(readOK, ext, parseOK, reqs) ==
  IF ~readOK THEN LoadFailed(<<"failed to read config file">>)
  ELSE IF ext \notin {".yaml", ".yml", ".json"}
    THEN LoadFailed(<<"unsupported file extension">>)
  ELSE IF ~parseOK THEN LoadFailed(<<"failed to parse config file">>)
  ELSE IF \E i \in 1..Len(reqs) : ValidateRequest(reqs[i]) # NoError
    THEN LET i == CHOOSE k \in 1..Len(reqs) :
                    /\ ValidateRequest(reqs[k]) # NoError
                    /\ \A j \in 1..(k - 1) : ValidateRequest(reqs[j]) = NoError
         IN LoadFailed(<<"request", i - 1, reqs[i].Name>> \o ValidateRequest(reqs[i]))
  ELSE Loaded(reqs)

\* Definitions of a configuration file: two that validate, and one for each
\* error of validation
EveryTwoSeconds == ScheduleSpec(<<>>, <<TwoSeconds>>, <<>>, <<>>, <<>>)
TestDefinitions ==
  {ScheduledRequest("a", EveryTwoSeconds, "GET", "u"),
   ScheduledRequest("b", ScheduleSpec(<<3>>, <<>>, <<>>, <<>>, <<>>), "get", "u"),
   ScheduledRequest("", EveryTwoSeconds, "GET", "u"),
   ScheduledRequest("two", ScheduleSpec(<<3>>, <<TwoSeconds>>, <<>>, <<>>, <<>>), "GET", "u"),
   ScheduledRequest("none", ScheduleSpec(<<>>, <<>>, <<>>, <<>>, <<>>), "GET", "u"),
   ScheduledRequest("fetch", EveryTwoSeconds, "fetch", "u"),
   ScheduledRequest("nomethod", EveryTwoSeconds, "", "u"),
   ScheduledRequest("nourl", EveryTwoSeconds, "GET", "")}

TestConfigs == UNION {[1..n -> TestDefinitions] : n \in 0..MaxReqs}

\* main with -config: the file and what it holds
LoadInit ==
  /\ NoScheduler
  /\ input \in {[kind |-> "config", readOK |-> rd, ext |-> x, parseOK |-> ps, requests |-> c] :
                  rd \in BOOLEAN, x \in {".yaml", ".yml", ".json", ".txt"},
                  ps \in BOOLEAN, c \in TestConfigs}
  /\ output = NoCall

\* `requests, err := spec.LoadConfig(*configPath)` and, on an error,
\* log.Fatalf, which ends the process
MainLoadConfig ==
  /\ input.kind = "config"
  /\ output.kind = "none"
  /\ LET r == LoadConfig(input.readOK, input.ext, input.parseOK, input.requests)
     IN output' = [kind |-> "main",
                   pc |-> IF r.err # NoError THEN "fatal" ELSE "loaded",
                   err |-> r.err,
                   requests |-> r.requests,
                   scheduled |-> <<>>]
  /\ UNCHANGED <<schedulerVars, input>>

\* `scheduler := engine.NewScheduler(requests, config)` and scheduler.Start()
MainStart ==
  /\ output.kind = "main"
  /\ output.pc = "loaded"
  /\ output' = [output EXCEPT !.pc = "started", !.scheduled = output.requests]
  /\ UNCHANGED <<schedulerVars, input>>

LoadNext == MainLoadConfig \/ MainStart

LoadSpec == LoadInit /\ [][LoadNext]_vars

\* ------------------------------------------------ IsTemplateString, alone
\* The strings of braces and other text up to MaxStringLen bytes
TestStrings == UNION {[1..n -> {"{", "}", "a"}] : n \in 0..MaxStringLen}

RecognitionInit ==
  /\ NoScheduler
  /\ input \in {[kind |-> "string", s |-> s] : s \in TestStrings}
  /\ output = NoCall

CallIsTemplateString ==
  /\ input.kind = "string"
  /\ output.kind = "none"
  /\ output' = [kind |-> "IsTemplateString", is |-> IsTemplateString(input.s)]
  /\ UNCHANGED <<schedulerVars, input>>

RecognitionNext == CallIsTemplateString

RecognitionSpec == RecognitionInit /\ [][RecognitionNext]_vars

\* --------------------------------------- a jittered schedule, computed twice
\* TemplateEngine.jitter on a context, c the reading of the clock
jitterOn(ctx, base, duration, bits, c) ==
  LET p == ParseDuration(duration)
  IN IF p.err THEN Drawn(ctx, base)
     ELSE LET r == randIntOn(ctx, 0, Wrap(p.d, bits), bits, c)
          IN IF r.panic THEN r ELSE Drawn(r.ctx, base + r.n)

\* A relative schedule with a jitter is computed by two engines, each on a
\* context of its own with the seed input.seed, their injected clocks frozen
\* at input.t.  output.evaluator[x] and output.engine[x] hold what
\* Evaluator.computeScheduledTime and ScheduleEngine.ComputeNextRun
\* returned to engine x, <<>> before the call.
JitterInit ==
  /\ NoScheduler
  /\ input \in {[kind |-> "jittered", t |-> t, bits |-> b, seed |-> sd,
                 schedule |-> ScheduleSpec(<<>>, <<rel>>, <<>>, <<>>, <<jit>>)] :
                  t \in TestTimes, b \in {NarrowBits, WideBits}, sd \in 1..2,
                  rel \in {TwoSeconds, FiveMinutes},
                  jit \in {TwoSeconds, FiveMinutes, NotADuration}}
  /\ output = [kind |-> "jittered",
               evaluator |-> [x \in Engines |-> <<>>],
               engine |-> [x \in Engines |-> <<>>]]

\* Evaluator.computeScheduledTime of engine x, the relative case: the
\* frozen clock plus the duration, then TemplateEngine.jitter on the context
CallEvaluatorOn(x) ==
  /\ output.kind = "jittered"
  /\ output.evaluator[x] = <<>>
  /\ LET base == input.t + ParseDuration(Deref(input.schedule.Relative)).d
         r == jitterOn(Context(input.seed, <<>>), base, Deref(input.schedule.Jitter),
                       input.bits, input.t)
     IN output' = [output EXCEPT !.evaluator[x] = <<[at |-> r.n, panic |-> r.panic]>>]
  /\ UNCHANGED <<schedulerVars, input>>

\* ScheduleEngine.ComputeNextRun(now, schedule) of engine x, now being the
\* frozen clock: applyJitter reads time.Now() itself
CallEngineOn(x) ==
  /\ output.kind = "jittered"
  /\ output.engine[x] = <<>>
  /\ \E r \in ComputeNextRun(input.t, input.schedule) :
       output' = [output EXCEPT !.engine[x] = <<[at |-> r.at, panic |-> r.panic]>>]
  /\ UNCHANGED <<schedulerVars, input>>

JitterNext ==
  \/ \E x \in Engines : CallEvaluatorOn(x)
  \/ \E x \in Engines : CallEngineOn(x)

JitterSpec == JitterInit /\ [][JitterNext]_vars

\* ------------------------------------------- the context under evaluation
\* An EvaluationContext: Variables maps some of the keys to a value (nil
\* and the empty map read alike), randSource is <<>> for nil
Keys == {"k", "m"}
VarValues == {"a", "b"}
EvaluationContext(variables, sequence, seed, clock, src) ==
  [Variables |-> variables, Sequence |-> sequence, Seed |-> seed,
   Clock |-> clock, randSource |-> src]

\* The part of the context the random functions read and write
RandomPart(ctx) == Context(ctx.Seed, ctx.randSource)
WithRandomPart(ctx, rc) == [ctx EXCEPT !.Seed = rc.Seed, !.randSource = rc.randSource]

\* What a template function leaves: the context and whether it panicked
Left(ctx, panic) == [ctx |-> ctx, panic |-> panic]

\* A getVar that stores the empty string under a key it did not find
getVarStoring(ctx, key) ==
  IF key \in DOMAIN ctx.Variables THEN Left(ctx, FALSE)
  ELSE Left([ctx EXCEPT !.Variables =
               [k \in DOMAIN ctx.Variables \cup {key} |->
                  IF k = key THEN "" ELSE ctx.Variables[k]]], FALSE)

\* TemplateEngine.getVar: a read of Variables
getVar(ctx, key) == Left(ctx, FALSE)

\* TemplateEngine.seq
seq(ctx) == Left([ctx EXCEPT !.Sequence = SeqIncrement(ctx.Sequence)], FALSE)

\* TemplateEngine.SetVariable
SetVariable(ctx, key, value) ==
  [ctx EXCEPT !.Variables = [k \in DOMAIN ctx.Variables \cup {key} |->
                               IF k = key THEN value ELSE ctx.Variables[k]]]

\* The calls of an expression: {{var "k"}}, {{seq}}, {{randInt 1 2}},
\* {{randInt 0 max}} with max the largest int, {{randFloat}}, {{now}}, and
\* a function that is not in the function map
VarCall(key) == [fn |-> "var", key |-> key]
SeqCall == [fn |-> "seq"]
RandIntCall(min, max) == [fn |-> "randInt", min |-> min, max |-> max]
RandFloatCall == [fn |-> "randFloat"]
NowCall == [fn |-> "now"]
UnknownCall == [fn |-> "unknown"]

\* One function of the function map called on the context
CallFunction(ctx, call, bits) ==
  CASE call.fn = "var" -> getVar(ctx, call.key)
    [] call.fn = "seq" -> seq(ctx)
    [] call.fn = "randInt" ->
         LET r == randIntOn(RandomPart(ctx), call.min, call.max, bits, ctx.Clock)
         IN Left(WithRandomPart(ctx, r.ctx), r.panic)
    [] call.fn = "randFloat" ->
         Left(WithRandomPart(ctx, randFloatOn(RandomPart(ctx), ctx.Clock).ctx), FALSE)
    [] OTHER -> Left(ctx, FALSE)

\* t.Execute: the calls in order, ended by the first that panics
RECURSIVE Execute(_, _, _)
Execute(ctx, expr, bits) ==
  IF expr = <<>> THEN [ctx |-> ctx, err |-> FALSE]
  ELSE LET r == CallFunction(ctx, Head(expr), bits)
       IN IF r.panic THEN [ctx |-> r.ctx, err |-> TRUE]
          ELSE Execute(r.ctx, Tail(expr), bits)

\* TemplateEngine.EvaluateTemplate on a context: Parse rejects a function
\* that is not in the map before anything is executed
EvaluateTemplateOn(ctx, expr, bits) ==
  IF \E i \in 1..Len(expr) : expr[i] = UnknownCall
    THEN [ctx |-> ctx, err |-> TRUE]
    ELSE Execute(ctx, expr, bits)

\* Evaluator.EvaluateRequest on a context: the URL, the header value and
\* the body in turn, ended by the first error, then the scheduled time,
\* whose jitter draws from randInt.  A request is the expressions of those
\* three strings and the jitter of its relative schedule, <<>> for none.
RECURSIVE EvaluateAll(_, _, _)
EvaluateAll(ctx, exprs, bits) ==
  IF exprs = <<>> THEN [ctx |-> ctx, err |-> FALSE]
  ELSE LET r == EvaluateTemplateOn(ctx, Head(exprs), bits)
       IN IF r.err THEN r ELSE EvaluateAll(r.ctx, Tail(exprs), bits)

EvaluateRequestOn(ctx, req, bits) ==
  LET r == EvaluateAll(ctx, <<req.URL, req.Header, req.Body>>, bits)
  IN IF r.err \/ req.Jitter = <<>> THEN r
     ELSE LET j == jitterOn(RandomPart(r.ctx), ctx.Clock, Deref(req.Jitter), bits, ctx.Clock)
          IN [ctx |-> WithRandomPart(r.ctx, j.ctx), err |-> j.panic]

MaxEvaluations == 3   \* operations on one context

TestExpressions(bits) ==
  {<<>>, <<VarCall("k")>>, <<VarCall("m"), SeqCall>>, <<SeqCall, SeqCall>>,
   <<RandIntCall(1, 2)>>, <<SeqCall, RandIntCall(0, MaxInt(bits))>>,
   <<RandFloatCall, NowCall>>, <<SeqCall, UnknownCall>>}

TestContextRequests(bits) ==
  {[URL |-> u, Header |-> <<VarCall("k")>>, Body |-> b, Jitter |-> j] :
     u \in {<<>>, <<SeqCall>>, <<UnknownCall>>},
     b \in {<<RandFloatCall>>, <<SeqCall, RandIntCall(0, MaxInt(bits))>>},
     j \in {<<>>, <<TwoSeconds>>}}

\* output.ctx is the context, output.last the operation that acted last,
\* output.done the number of operations so far
ContextInit ==
  /\ NoScheduler
  /\ input \in {[kind |-> "context", bits |-> b] : b \in {NarrowBits, WideBits}}
  /\ \E seed \in 0..1, known \in SUBSET Keys :
       output = [kind |-> "context", last |-> "NewTemplateEngine", done |-> 0,
                 ctx |-> EvaluationContext([k \in known |-> "a"], 0, seed, 1, <<>>)]

Operated(ctx, op) ==
  /\ output.kind = "context"
  /\ output.done < MaxEvaluations
  /\ output' = [output EXCEPT !.ctx = ctx, !.last = op, !.done = @ + 1]
  /\ UNCHANGED <<schedulerVars, input>>

CallEvaluateTemplateOn ==
  \E expr \in TestExpressions(input.bits) :
    Operated(EvaluateTemplateOn(output.ctx, expr, input.bits).ctx, "EvaluateTemplate")

CallEvaluateRequestOn ==
  \E req \in TestContextRequests(input.bits) :
    Operated(EvaluateRequestOn(output.ctx, req, input.bits).ctx, "EvaluateRequest")

CallSetVariable ==
  \E key \in Keys, value \in VarValues :
    Operated(SetVariable(output.ctx, key, value), "SetVariable")

CallSetSeedOn ==
  \E seed \in 0..2 :
    Operated(WithRandomPart(output.ctx, SetSeed(RandomPart(output.ctx), seed)), "SetSeed")

ContextNext ==
  \/ CallEvaluateTemplateOn
  \/ CallEvaluateRequestOn
  \/ CallSetVariable
  \/ CallSetSeedOn

ContextSpec == ContextInit /\ [][ContextNext]_vars

\* ------------------------------------- the containers of a resolved request
\* Values with the identity of their containers.  A container is a
\* map[string]interface{} ("map"), a []interface{} ("list") or any other
\* map or slice ("other": a map[interface{}]interface{}, a typed slice, a
\* json.RawMessage); id names the allocation.  Keys are strings and have
\* no identity; they are left out.
Scalar(s) == [t |-> "string", s |-> s]
Container(t, id, kids) == [t |-> t, id |-> id, kids |-> kids]
LiteralAny(value) == [t |-> "DynamicAny", isT |-> FALSE, value |-> value]
TemplateAny(tmpl) == [t |-> "DynamicAny", isT |-> TRUE, tmpl |-> tmpl]
Absent == [t |-> "nil"]

\* The allocations a value reaches
RECURSIVE Containers(_)
Containers(v) ==
  CASE v.t \in {"map", "list", "other"} ->
         {v.id} \cup UNION {Containers(v.kids[i]) : i \in DOMAIN v.kids}
    [] v.t = "DynamicAny" /\ ~v.isT -> Containers(v.value)
    [] OTHER -> {}

\* `make(...)` in call `call` at position `path` of the body
Fresh(call, path) == <<"made", call, path>>

\* An allocation of the definition
Given(n) == <<"given", "definition", <<n>>>>

\* Evaluator.resolveValue with allocations: a map and a list are rebuilt in
\* a container made by this call, a literal DynamicAny returns the value it
\* holds, and a value of any other type is returned as it is
\* (resolveReflectedValue, `if val.Kind() != reflect.Struct { return v, nil }`)
RECURSIVE resolveValueAt(_, _, _)
RECURSIVE resolveKidsAt(_, _, _, _)
resolveValueAt(v, call, path) ==
  CASE v.t = "nil" -> [err |-> FALSE, val |-> Absent]
    [] v.t = "string" ->
         IF IsTemplateString(v.s)
           THEN LET r == EvaluateTemplate(v.s) IN [err |-> r.err, val |-> Scalar(r.out)]
           ELSE [err |-> FALSE, val |-> v]
    [] v.t \in {"map", "list"} ->
         LET r == resolveKidsAt(v.kids, call, path, 1)
         IN IF r.err THEN [err |-> TRUE, val |-> Absent]
            ELSE [err |-> FALSE, val |-> Container(v.t, Fresh(call, path), r.kids)]
    [] v.t = "DynamicAny" ->
         IF v.isT
           THEN LET r == EvaluateTemplate(v.tmpl) IN [err |-> r.err, val |-> Scalar(r.out)]
           ELSE [err |-> FALSE, val |-> v.value]
    [] OTHER -> [err |-> FALSE, val |-> v]

resolveKidsAt(kids, call, path, i) ==
  IF i > Len(kids) THEN [err |-> FALSE, kids |-> <<>>]
  ELSE LET r == resolveValueAt(kids[i], call, Append(path, i))
           rest == resolveKidsAt(kids, call, path, i + 1)
       IN IF r.err \/ rest.err THEN [err |-> TRUE, kids |-> <<>>]
          ELSE [err |-> FALSE, kids |-> <<r.val>> \o rest.kids]

\* Evaluator.EvaluateRequest with allocations: the definition is read, the
\* header map is made by the call and the body is what resolveValue
\* returned; ok is FALSE when the resolution failed.
EvaluateRequestAt(def, call) ==
  LET url == IF IsTemplateString(def.URL) THEN EvaluateTemplate(def.URL)
             ELSE [err |-> FALSE, out |-> def.URL]
      body == resolveValueAt(def.Body, call, <<>>)
  IN IF url.err \/ body.err
       THEN [ok |-> FALSE, URL |-> <<>>, Headers |-> Fresh(call, <<0>>), Body |-> Absent]
       ELSE [ok |-> TRUE, URL |-> url.out, Headers |-> Fresh(call, <<0>>), Body |-> body.val]

\* Bodies of a definition; its own containers are Given(n)
TestContainers ==
  LET leaf == {Scalar(Plain), Scalar(Tpl), TemplateAny(TplBad),
               Container("other", Given(1), <<>>),
               LiteralAny(Container("other", Given(1), <<>>)),
               LiteralAny(Scalar(Plain))}
  IN {Absent} \cup leaf
       \cup {Container("map", Given(2), <<k>>) : k \in leaf}
       \cup {Container("list", Given(2), <<Container("map", Given(3), <<k>>)>>) : k \in leaf}
       \cup {LiteralAny(Container("map", Given(2), <<Scalar(Tpl)>>))}

\* One definition, resolved by two callers in any order: output.def is the
\* definition as it is now, output.got[x] what caller x was returned, <<>>
\* before the call
SharingInit ==
  /\ NoScheduler
  /\ input \in {[kind |-> "sharing",
                 def |-> [URL |-> u, Headers |-> Given(0), Body |-> b]] :
                  u \in {Plain, Tpl, TplBad}, b \in TestContainers}
  /\ output = [kind |-> "sharing", def |-> input.def,
               got |-> [x \in Engines |-> <<>>]]

CallEvaluateRequestAt(x) ==
  /\ output.kind = "sharing"
  /\ output.got[x] = <<>>
  /\ output' = [output EXCEPT !.got[x] = <<EvaluateRequestAt(output.def, x)>>]
  /\ UNCHANGED <<schedulerVars, input>>

SharingNext == \E x \in Engines : CallEvaluateRequestAt(x)

SharingSpec == SharingInit /\ [][SharingNext]_vars

\* The allocations of what caller x holds
Held(x) ==
  IF output.got[x] # <<>> /\ output.got[x][1].ok
    THEN {output.got[x][1].Headers} \cup Containers(output.got[x][1].Body)
    ELSE {}

\* ------------------------------------------- Start called again on a Scheduler
\* Two goroutines call Start on one run-once Scheduler and a third calls
\* Stop.  output holds the Scheduler's running and cancelled, and for each
\* caller c its position (caller[c]), the dispatch goroutines of its run
\* (unit[c][i]: "none", "acquire", "sending", "done") and the number of
\* slots taken of the gate its runOnce made (gate[c]).
Callers == {"first", "second"}

RestartInit ==
  /\ NoScheduler
  /\ input \in {[kind |-> "restart", requests |-> n, concurrency |-> k] :
                  n \in 1..MaxReqs, k \in 1..MaxConcurrency}
  /\ output = [kind |-> "restart", running |-> FALSE, cancelled |-> FALSE,
               caller |-> [c \in Callers |-> "idle"],
               unit |-> [c \in Callers |-> [i \in 1..input.requests |-> "none"]],
               gate |-> [c \in Callers |-> 0]]

\* Scheduler.Start called by c, up to the end of runOnce's loop: refused
\* when running is set, else running is set, a gate is made and one
\* goroutine is started for each request
CallStart(c) ==
  /\ output.kind = "restart"
  /\ output.caller[c] = "idle"
  /\ output' = IF output.running
                 THEN [output EXCEPT !.caller[c] = "already running"]
                 ELSE [output EXCEPT !.running = TRUE,
                                     !.caller[c] = "runOnce",
                                     !.unit[c] = [i \in 1..input.requests |-> "acquire"]]
  /\ UNCHANGED <<schedulerVars, input>>

\* Scheduler.Stop
CallStop ==
  /\ output.kind = "restart"
  /\ output.running
  /\ output' = [output EXCEPT !.cancelled = TRUE, !.running = FALSE]
  /\ UNCHANGED <<schedulerVars, input>>

\* `semaphore <- struct{}{}` of a goroutine of c's run, once there is room
RunAcquire(c, i) ==
  /\ output.kind = "restart"
  /\ i <= input.requests
  /\ output.unit[c][i] = "acquire"
  /\ SemHasRoom(output.gate[c], input.concurrency)
  /\ output' = [output EXCEPT !.unit[c][i] = "sending", !.gate[c] = @ + 1]
  /\ UNCHANGED <<schedulerVars, input>>

\* executeRequest returns and the deferred `<-semaphore`, wg.Done() run
RunRelease(c, i) ==
  /\ output.kind = "restart"
  /\ i <= input.requests
  /\ output.unit[c][i] = "sending"
  /\ output' = [output EXCEPT !.unit[c][i] = "done", !.gate[c] = @ - 1]
  /\ UNCHANGED <<schedulerVars, input>>

\* wg.Wait() of c's runOnce, and Start returns nil
RunOnceReturns(c) ==
  /\ output.kind = "restart"
  /\ output.caller[c] = "runOnce"
  /\ \A i \in 1..input.requests : output.unit[c][i] = "done"
  /\ output' = [output EXCEPT !.caller[c] = "nil"]
  /\ UNCHANGED <<schedulerVars, input>>

RestartNext ==
  \/ \E c \in Callers : CallStart(c)
  \/ CallStop
  \/ \E c \in Callers, i \in 1..MaxReqs : RunAcquire(c, i)
  \/ \E c \in Callers, i \in 1..MaxReqs : RunRelease(c, i)
  \/ \E c \in Callers : RunOnceReturns(c)

RestartSpec == RestartInit /\ [][RestartNext]_vars

\* The runs that have not returned, and the sends in flight over all runs
ActiveRuns == {c \in Callers : output.caller[c] = "runOnce"}
SendsInFlight ==
  Cardinality({<<c, i>> \in Callers \X (1..input.requests) : output.unit[c][i] = "sending"})

\* ------------------------------------------------------------ NewScheduler
\* A SchedulerConfig; Timeout is in seconds
SchedulerConfig(w, c, o, d, t) ==
  [Workers |-> w, Concurrency |-> c, Once |-> o, DryRun |-> d, Timeout |-> t]

\* NewHTTPClient(timeout): the timeout of the client
NewHTTPClient(timeout) == [timeout |-> IF timeout <= 0 THEN 30 ELSE timeout]

\* A NewScheduler that takes the configuration as it is given
NewSchedulerAsGiven(reqs, config) ==
  [requests |-> reqs, workers |-> config.Workers, concurrency |-> config.Concurrency,
   once |-> config.Once, dryRun |-> config.DryRun,
   httpClient |-> [timeout |-> config.Timeout],
   cancelled |-> FALSE, running |-> FALSE]

\* NewScheduler(requests, config)
NewScheduler(reqs, config) ==
  LET w == IF config.Workers <= 0 THEN 1 ELSE config.Workers
      c == IF config.Concurrency <= 0 THEN 10 ELSE config.Concurrency
      t == IF config.Timeout <= 0 THEN 30 ELSE config.Timeout
  IN [requests |-> reqs, workers |-> w, concurrency |-> c,
      once |-> config.Once, dryRun |-> config.DryRun,
      httpClient |-> NewHTTPClient(t),
      cancelled |-> FALSE, running |-> FALSE]

TestSettings == {-2, -1, 0, 1, 2}
TestTimeouts == {-1, 0, 1, 30}

ConfigInit ==
  /\ NoScheduler
  /\ input \in {[kind |-> "config", requests |-> reqs,
                 config |-> SchedulerConfig(w, c, o, d, t)] :
                  reqs \in {<<>>, <<RelPlain>>}, w \in TestSettings, c \in TestSettings,
                  o \in BOOLEAN, d \in BOOLEAN, t \in TestTimeouts}
  /\ output = NoCall

CallNewScheduler ==
  /\ input.kind = "config"
  /\ output.kind = "none"
  /\ output' = [kind |-> "NewScheduler",
                scheduler |-> NewScheduler(input.requests, input.config)]
  /\ UNCHANGED <<schedulerVars, input>>

ConfigSpec == ConfigInit /\ [][CallNewScheduler]_vars

\* ------------------------------------------------------------ vocabulary
Continuous == ~dryRun /\ ~once
RunOnce == ~dryRun /\ once

\* Dispatches between acquiring a gate slot and releasing it
HoldingSlot ==
  Cardinality({u \in UnitIds : units[u].pc \in {"exec", "seqStore", "seqRet", "sending"}})
    + Cardinality({w \in WorkerIds : wpc[w] = "woken"})

\* Dispatches inside HTTPClient.SendRequest
InFlight == Cardinality({u \in UnitIds : units[u].pc = "sending"})

\* No goroutine is inside seq
NoSeqInProgress == \A u \in UnitIds : units[u].pc \notin {"seqStore", "seqRet"}

\* EvaluateRequest returns an error for the definition
EvalFails(def) == URLFails(def) \/ ScheduleFails(def)

\* Evaluating some expression of the value fails
RECURSIVE ExprFails(_)
ExprFails(v) ==
  CASE v.t = "string" -> ResolveString(v.s).err
    [] v.t \in {"map", "list"} ->
         \E i \in DOMAIN v.kids : ResolveString(v.kids[i].k).err \/ ExprFails(v.kids[i].v)
    [] v.t \in {"DynamicString", "DynamicAny"} -> v.isT /\ EvaluateTemplate(v.tmpl).err
    [] OTHER -> FALSE

\* Evaluating some expression of a header key or value fails
HeaderFails(headers) ==
  \E i \in DOMAIN headers : ResolveString(headers[i].k).err \/ ResolveString(headers[i].v).err

\* The definition's instant is at or before the clock's reading.  An epoch
\* is compared with the clock; the other definitions of the catalogue have
\* an instant that the start of the run has reached (an interval that has
\* passed, a pattern matching every minute, an expression giving the time
\* of the call).
Due(def, t) == IF def.sched = "epoch" THEN def.epoch <= t ELSE TRUE

\* runContinuous has started its workers and nobody has called Stop
ContinuousRunning == Continuous /\ startPc = "contWait" /\ ~cancelled

\* The magnitude a jitter string writes: the duration that follows a "±" or
\* a sign, without its sign; 0 for a string that writes no duration
Magnitude(jitterStr) ==
  LET body == IF Len(jitterStr) > 2 /\ SubSeq(jitterStr, 1, 2) = PlusMinus
                THEN SubSeq(jitterStr, 3, Len(jitterStr))
              ELSE IF Len(jitterStr) > 1 /\ jitterStr[1] \in {PlusMinusByte, "+", "-"}
                THEN Tail(jitterStr)
              ELSE jitterStr
      p == ParseDuration(body)
  IN IF p.err \/ p.d < 0 THEN 0 ELSE p.d

\* The base instant a call of the scheduling functions adds the jitter to:
\* the argument of applyJitter and jitter, reference + d for a relative
\* schedule
JitterBase ==
  IF output.kind \in {"applyJitter", "jitter"} THEN input.t
  ELSE input.t + ParseDuration(Deref(input.schedule.Relative)).d

\* A call that returned an instant after adding a jitter to a base
Jittered ==
  /\ output.kind \in {"applyJitter", "jitter", "computeScheduledTime"}
  /\ ~output.panic
  /\ IsSet(input.schedule.Jitter)
  /\ output.kind = "computeScheduledTime" =>
       /\ ~IsSet(input.schedule.Epoch) /\ IsSet(input.schedule.Relative)
       /\ ~ParseDuration(Deref(input.schedule.Relative)).err

\* The schedule of the call writes its jitter as "±" followed by a duration
PlusMinusJitter ==
  /\ input.kind = "schedule"
  /\ IsSet(input.schedule.Jitter)
  /\ Len(Deref(input.schedule.Jitter)) > 2
  /\ SubSeq(Deref(input.schedule.Jitter), 1, 2) = PlusMinus
  /\ ~ParseDuration(SubSeq(Deref(input.schedule.Jitter), 3,
                           Len(Deref(input.schedule.Jitter)))).err

\* The schedule of the call with the "±" of its jitter left out
PlainJitter ==
  [input.schedule EXCEPT
     !.Jitter = <<SubSeq(Deref(input.schedule.Jitter), 3,
                         Len(Deref(input.schedule.Jitter)))>>]

\* A call of one of the three schedule computations
ScheduleComputed ==
  output.kind \in {"ComputeNextRun", "ComputeNextRunWithTemplate", "computeScheduledTime"}

\* The call returned exactly the instant x and a nil error
ReturnedExactly(x) ==
  output.err = NoError /\ ~output.panic /\ ~output.zero /\ output.at = x

\* The value of every strategy the description sets is well formed: an epoch
\* that is not negative, a relative duration and a cron pattern that parse
WellFormedValues(schedule) ==
  /\ IsSet(schedule.Epoch) => Deref(schedule.Epoch) >= 0
  /\ IsSet(schedule.Relative) => ~ParseDuration(Deref(schedule.Relative)).err
  /\ IsSet(schedule.Cron) => CronParses(Deref(schedule.Cron))

\* A literal string: one that does not hold both markers of an expression
Literal(s) == ~(Contains(s, Open) /\ Contains(s, Close))

\* Every string of the value v is literal and no wrapper is tagged as a
\* template
RECURSIVE AllLiteral(_)
AllLiteral(v) ==
  CASE v.t = "string" -> Literal(v.s)
    [] v.t = "map" -> \A i \in DOMAIN v.kids :
                        Literal(v.kids[i].k) /\ AllLiteral(v.kids[i].v)
    [] v.t = "list" -> \A i \in DOMAIN v.kids : AllLiteral(v.kids[i].v)
    [] v.t \in {"DynamicString", "DynamicAny"} -> ~v.isT
    [] OTHER -> TRUE

\* r holds every literal string of v, at its place: a scalar, the key of a
\* map entry, the value under a key, an item of a list, the value of a
\* wrapper declared literal (the keys of the maps followed here resolve to
\* different strings, so an entry keeps its place)
RECURSIVE LiteralsKept(_, _)
LiteralsKept(v, r) ==
  CASE v.t = "string" -> Literal(v.s) => r = v
    [] v.t \in {"map", "list"} ->
         /\ r.t = v.t
         /\ Len(r.kids) = Len(v.kids)
         /\ \A i \in DOMAIN v.kids :
              /\ Literal(v.kids[i].k) => r.kids[i].k = v.kids[i].k
              /\ LiteralsKept(v.kids[i].v, r.kids[i].v)
    [] v.t \in {"DynamicString", "DynamicAny"} ->
         (~v.isT /\ Literal(v.s)) => r = Str(v.s)
    [] OTHER -> TRUE

\* The body of the call is a wrapper declared literal whose string value
\* holds expression syntax
LiteralWrapperWithExpression ==
  /\ input.kind = "request"
  /\ input.req.Body.t \in {"DynamicString", "DynamicAny"}
  /\ ~input.req.Body.isT
  /\ IsTemplateString(input.req.Body.s)

\* The random functions are being called
RandomCalls == output.kind = "random"

\* Every sequence of results there is: one per engine and per seeding
SeededRuns ==
  UNION {{output.runs[x][k] : k \in 1..Len(output.runs[x])} : x \in Engines}

\* Two sequences of results agree as far as both go
SameSequence(r1, r2) ==
  \A i \in 1..Len(r1) : i <= Len(r2) => r1[i] = r2[i]

\* uuid has returned
UuidReturned == output.kind = "uuid"

\* The groups of s that "-" separates
RECURSIVE Groups(_)
Groups(s) ==
  IF \A i \in 1..Len(s) : s[i] # "-" THEN <<s>>
  ELSE LET k == CHOOSE i \in 1..Len(s) : s[i] = "-" /\ \A j \in 1..(i - 1) : s[j] # "-"
       IN <<SubSeq(s, 1, k - 1)>> \o Groups(SubSeq(s, k + 1, Len(s)))

\* s has the form of a UUID: hexadecimal groups of 8, 4, 4, 4 and 12 digits
UuidShape(s) ==
  LET g == Groups(s)
  IN /\ Len(g) = 5
     /\ <<Len(g[1]), Len(g[2]), Len(g[3]), Len(g[4]), Len(g[5])>> = <<8, 4, 4, 4, 12>>
     /\ \A k \in 1..5 : \A i \in 1..Len(g[k]) :
          g[k][i] \in {"0", "1", "2", "3", "4", "5", "6", "7", "8", "9",
                       "a", "b", "c", "d", "e", "f",
                       "A", "B", "C", "D", "E", "F"}

\* main has loaded, or failed to load, a configuration file that could be
\* read and parsed
ConfigRead ==
  /\ output.kind = "main"
  /\ input.readOK /\ input.parseOK /\ input.ext # ".txt"

\* The definitions of the file with a configuration error, and without
InvalidDefinitions == {i \in 1..Len(input.requests) : ValidateRequest(input.requests[i]) # NoError}
ValidDefinitions == SelectSeq(input.requests, LAMBDA r : ValidateRequest(r) = NoError)

\* A call of Stop would leave the scheduler as it is
StopChangesNothing == ~ENABLED (Stop /\ vars' # vars)

\* Worker w, not stopped, checks the definition its scan is at, in this step
Checks(w) ==
  /\ wpc[w] = "scan"
  /\ ~cancelled
  /\ <<wpc[w], widx[w]>>' # <<wpc[w], widx[w]>>

\* The worker takes the definition it checked for dispatch: it acquires a
\* gate slot for it or waits for one
Takes(w) == sem' = sem + 1 \/ wpc'[w] = "blocked"

\* The string holds an opening marker and, after it, a closing marker
MatchedPair(s) ==
  \E i \in 1..Len(s), j \in 1..Len(s) :
    /\ i + 2 <= j /\ j + 1 <= Len(s)
    /\ SubSeq(s, i, i + 1) = <<"{", "{">>
    /\ SubSeq(s, j, j + 1) = <<"}", "}">>

\* A schedule computation is about to be called with a description that
\* sets one strategy, whose value is well formed and, for an epoch, not
\* before the reference time, and a jitter that is a positive duration
JitterToApply ==
  /\ input.kind = "schedule"
  /\ output.kind = "none"
  /\ StrategyCount(input.schedule) = 1
  /\ IsSet(input.schedule.Epoch) => input.t <= Deref(input.schedule.Epoch)
  /\ IsSet(input.schedule.Relative) => ~ParseDuration(Deref(input.schedule.Relative)).err
  /\ IsSet(input.schedule.Template) => ~EvaluateTemplateToInt64(Deref(input.schedule.Template)).err
  /\ IsSet(input.schedule.Cron) => CronParses(Deref(input.schedule.Cron))
  /\ IsSet(input.schedule.Jitter)
  /\ ~ParseDuration(Deref(input.schedule.Jitter)).err
  /\ ParseDuration(Deref(input.schedule.Jitter)).d > 0

\* The base instant of that description
BaseInstant ==
  IF IsSet(input.schedule.Epoch) THEN Deref(input.schedule.Epoch)
  ELSE IF IsSet(input.schedule.Relative)
    THEN input.t + ParseDuration(Deref(input.schedule.Relative)).d
  ELSE IF IsSet(input.schedule.Template)
    THEN EvaluateTemplateToInt64(Deref(input.schedule.Template)).n
  ELSE CronNext(input.t)

\* The call can return an instant of the jitter window after the base
InWindowAfterBase ==
  /\ output'.err = NoError /\ ~output'.panic
  /\ output'.at > BaseInstant
  /\ output'.at <= BaseInstant + ParseDuration(Deref(input.schedule.Jitter)).d

\* What the caller of a schedule computation can see of its results: that
\* it failed, that it panicked, or the instant
Outcomes(results) ==
  {IF r.panic THEN <<"panic">> ELSE IF r.err # NoError THEN <<"error">> ELSE <<"at", r.at>> :
     r \in results}

\* Worker w hands requests[i] to a new dispatch goroutine in this step
Dispatches(w, i) ==
  /\ wpc[w] \in {"scan", "woken"} /\ widx[w] = i
  /\ <<wpc'[w], widx'[w]>> # <<wpc[w], widx[w]>>
  /\ \E u \in UnitIds : units[u].pc = "none" /\ units'[u] = [pc |-> "exec", req |-> i, tmp |-> 0]

\* Worker w is in a scan of the list in which it has passed requests[i],
\* a definition that is due at every look: it dispatched it in this scan
DispatchedInScan(w, i) ==
  /\ wpc[w] \in {"scan", "blocked", "woken"} /\ widx[w] > i
  /\ requests[i].sched = "relative"

TypeOK ==
  /\ sem \in 0..concurrency
  /\ wg \in 0..Max(MaxReqs, MaxWorkers)
  /\ now \in 0..1
  /\ polls \in 0..MaxPolls
  /\ sem = HoldingSlot

\* ================================================================ claims

\* C1: at every moment of a run the number of dispatches holding a gate
\* slot, and so the number of HTTP sends in flight, is at most the
\* configured concurrency limit.
C1_InFlightWithinLimit ==
  /\ HoldingSlot <= concurrency
  /\ InFlight <= concurrency

\* C1 witness: a limit of at least two is reached by sends in flight while
\* another dispatch waits for a slot.
C1_Witness ==
  /\ concurrency >= 2
  /\ InFlight = concurrency
  /\ sendq # <<>>

\* C2: in run-once mode, when Start has returned every definition whose
\* expressions are valid has been resolved and sent exactly once, whatever
\* its schedule strategy.
C2_OnceSendsEveryStrategy ==
  (RunOnce /\ startPc = "returned") =>
    \A i \in 1..N : ~URLFails(requests[i]) => (resolved[i] = 1 /\ sent[i] = 1)

\* C3: in dry-run mode, whatever Once is, nothing is ever handed to the
\* transport or to a dispatch goroutine, Start is never blocked, and when it
\* has returned it returned nil with every definition resolved exactly once.
C3_DryRunNeverSends ==
  dryRun =>
    /\ \A i \in 1..N : sent[i] = 0 /\ resolved[i] <= 1
    /\ \A u \in UnitIds : units[u].pc = "none"
    /\ startPc \in {"idle", "dry", "returned"}
    /\ startPc = "dry" => ENABLED DryRunStep
    /\ startPc = "returned" =>
         (startErr = "nil" /\ \A i \in 1..N : resolved[i] = 1)

\* C3 witness: a dry run with Once set too and a definition that is due at
\* once has returned.
C3_Witness ==
  /\ dryRun /\ once
  /\ startPc = "returned"
  /\ N >= 2
  /\ \E i \in 1..N : shouldRunRequest(requests[i], now)

\* C4: once the scheduler has been stopped (Stop has cancelled its
\* context), no request is handed to the HTTP transport any more.
C4_NoSendAfterStop ==
  [][cancelled => sent' = sent]_vars

\* C5: in continuous mode no worker's poll loop ever waits for a gate slot.
C5_PollLoopNeverWaits ==
  \A w \in WorkerIds : wpc[w] # "blocked"

\* C6: after Stop has cancelled a continuous run, every worker eventually
\* exits and Start returns nil (every send completes, by fairness).
C6_StopEndsContinuousRun ==
  (Continuous /\ cancelled) ~>
    (startPc = "returned" /\ startErr = "nil"
       /\ \A w \in 1..workers : wpc[w] = "exited")

\* C6 witness: a continuous run of two workers that dispatched something
\* was stopped and Start has returned.
C6_Witness ==
  /\ Continuous /\ cancelled
  /\ workers = 2
  /\ \E i \in 1..N : sent[i] >= 1
  /\ startPc = "returned"

\* C7: every dispatch blocked on the gate eventually gets its slot: a
\* run-once goroutine goes on to execute, a worker goes on to spawn its
\* dispatch (every send completes, by fairness).
C7_WaiterEventuallyAcquires ==
  /\ \A u \in UnitIds : (units[u].pc = "blocked") ~> (units[u].pc = "exec")
  /\ \A w \in WorkerIds : (wpc[w] = "blocked") ~> (wpc[w] = "woken")

\* C7 witness: a worker that was blocked on the full gate holds the slot a
\* finished dispatch handed to it, the gate still being full.
C7_Witness ==
  /\ \E w \in WorkerIds : wpc[w] = "woken"
  /\ sem = concurrency

\* C8: seq is atomic under parallel resolution: no two calls return the
\* same value, and when no call is in progress the counter equals the
\* number of calls made.
C8_SeqAtomic ==
  /\ Cardinality(seqSeen) = seqCalls
  /\ NoSeqInProgress => Sequence = seqCalls

\* C9: on a fresh Evaluation Context whose calls of seq follow one another
\* (a dry run, or dispatches under a gate of one slot), the k-th call
\* returns k: the values returned so far are exactly 1..k.
C9_SeqCountsFromOne ==
  (dryRun \/ concurrency = 1) =>
    /\ seqSeen = 1..seqCalls
    /\ NoSeqInProgress => Sequence = seqCalls

\* C9 witness: two calls of seq have been made one after the other.
C9_Witness ==
  /\ dryRun \/ concurrency = 1
  /\ seqCalls = 2
  /\ seqSeen = {1, 2}

\* C10: in run-once mode a definition that fails (evaluation or transport
\* error) does not keep the others from being resolved and sent: a
\* definition is never sent twice, and when Start has returned it returned
\* nil, every definition was resolved once and every definition that
\* evaluates was sent once.
C10_FailureIsolated ==
  RunOnce =>
    /\ \A i \in 1..N : sent[i] <= 1
    /\ startPc = "returned" =>
         /\ startErr = "nil"
         /\ \A i \in 1..N :
              /\ resolved[i] = 1
              /\ sent[i] = (IF EvalFails(requests[i]) THEN 0 ELSE 1)

\* C10 witness: run-once has returned, one definition failed and another
\* was sent and answered.
C10_Witness ==
  /\ RunOnce
  /\ startPc = "returned"
  /\ \E i, j \in 1..N :
       /\ outcome[i] \in {"eval_error", "send_error"}
       /\ outcome[j] = "status_2xx"
       /\ sent[j] = 1

\* C11: when evaluating an expression of the URL, of a header key or value
\* or anywhere in the body fails, EvaluateRequest returns an error and a nil
\* ResolvedRequest, never a partly resolved one, and the error's outermost
\* message names the section (URL, header, body) that failed.
C11_FailureAbortsResolution ==
  output.kind = "EvaluateRequest" =>
    LET req == input.req
        urlFails == ResolveString(req.URL).err
        hdrFails == HeaderFails(req.Headers)
        bodyFails == ExprFails(req.Body)
    IN /\ (urlFails \/ hdrFails \/ bodyFails) => output.err # NoError
       /\ output.err # NoError => output.resolved = NoRequest
       /\ urlFails => output.err[1] = "failed to resolve URL template"
       /\ (~urlFails /\ hdrFails) =>
            output.err[1] \in {"failed to resolve header key template",
                               "failed to resolve header value template"}
       /\ (~urlFails /\ ~hdrFails /\ bodyFails) => output.err[1] = "failed to resolve body"

\* C11 witness: the URL and a header were resolved from their templates,
\* then an expression nested in the body failed; nothing is returned.
C11_Witness ==
  /\ output.kind = "EvaluateRequest"
  /\ IsTemplateString(input.req.URL)
  /\ \E i \in DOMAIN input.req.Headers : IsTemplateString(input.req.Headers[i].k)
  /\ output.err = <<"failed to resolve body", "failed to resolve map value",
                    "failed to resolve array item", "template">>
  /\ output.resolved.nil


\* C12: in a continuous run a relative definition is dispatched at most once
\* per elapsed interval d.  The runs followed here are MaxPolls scans at
\* most, begun one second apart by a worker and at the same moment by two
\* workers, against an interval of minutes: within them a relative
\* definition is handed to the transport at most once.
C12_RelativeOncePerInterval ==
  Continuous =>
    \A i \in 1..N : requests[i].sched = "relative" => sent[i] <= 1

\* C13: in a continuous run that is not stopped, every definition that is
\* due is eventually dispatched, whichever of the four strategies its
\* schedule sets (a further poll being left to the workers).
C13_DueEventuallyDispatched ==
  \A i \in 1..MaxReqs :
    (ContinuousRunning /\ i <= N /\ Due(requests[i], now) /\ polls < MaxPolls)
      ~> (cancelled \/ (i <= N /\ resolved[i] >= 1))

\* C14: the instant a jitter gives is never before the base and never after
\* base + magnitude, and a jitter string that writes no duration leaves the
\* base unchanged (its magnitude is 0) without an error.
C14_JitterWithinMagnitude ==
  Jittered =>
    /\ output.err = NoError
    /\ JitterBase <= output.at
    /\ output.at <= JitterBase + Magnitude(Deref(input.schedule.Jitter))

\* C15: a jitter written "±d" is the magnitude d: validation answers as it
\* does for the jitter "d", and schedule computation can return the same
\* instants as for the jitter "d".
C15_PlusMinusIsMagnitude ==
  PlusMinusJitter =>
    /\ output.kind = "ValidateSchedule" => output.err = ValidateSchedule(PlainJitter)
    /\ output.kind = "ComputeNextRun" =>
         ComputeNextRun(input.t, input.schedule) = ComputeNextRun(input.t, PlainJitter)
    /\ output.kind = "computeScheduledTime" =>
         computeScheduledTime(input.schedule, input.t, input.bits, input.seed)
           = computeScheduledTime(PlainJitter, input.t, input.bits, input.seed)

C17_RelativeIsReferencePlusDuration ==
  (ScheduleComputed /\ ~IsSet(input.schedule.Epoch) /\ IsSet(input.schedule.Relative))
    => LET rel == Deref(input.schedule.Relative)
       IN /\ (rel = FiveMinutes /\ ~IsSet(input.schedule.Jitter))
               => ReturnedExactly(input.t + 300)
          /\ (rel = TwoSeconds /\ ~IsSet(input.schedule.Jitter))
               => ReturnedExactly(input.t + 2)
          /\ rel = NotADuration
               => /\ output.err = <<"invalid relative duration">>
                  /\ output.zero /\ ~output.panic

\* C17 witness: ComputeNextRun of the relative schedule "5m" without jitter
\* at the reference time 4 returned 304.
C17_Witness ==
  /\ output.kind = "ComputeNextRun"
  /\ input.schedule = ScheduleSpec(<<>>, <<FiveMinutes>>, <<>>, <<>>, <<>>)
  /\ input.t = 4
  /\ ReturnedExactly(304)

C20_WrapperResolvedByContent ==
  (output.kind = "resolveValue" /\ LiteralWrapperWithExpression) =>
    /\ output.err = resolveValue(Str(input.req.Body.s)).err
    /\ output.val = resolveValue(Str(input.req.Body.s)).val
    /\ output.val # Str(input.req.Body.s)
\* C21 (as stated): two engines constructed with the same seed return the
\* same sequence of randInt and randFloat results for the same sequence of
\* calls, and so does an engine after SetSeed with that seed, whatever the
\* seed is.
C21_SameSeedSameSequence ==
  RandomCalls =>
    \A r1 \in SeededRuns, r2 \in SeededRuns : SameSequence(r1, r2)

\* C21 (amended): with the same seed other than 0, two engines return the
\* same sequence of randInt and randFloat results for the same sequence of
\* calls, and an engine returns that sequence again after SetSeed with the
\* seed.
C21_SameNonZeroSeedSameSequence ==
  (RandomCalls /\ input.seed # 0) =>
    \A r1 \in SeededRuns, r2 \in SeededRuns : SameSequence(r1, r2)

\* C21 witness: with a seed, both engines have drawn an integer of a range
\* and then a fraction, and engine "one" has done so again after SetSeed.
C21_Witness ==
  /\ RandomCalls
  /\ input.seed # 0
  /\ Len(output.script) >= 2
  /\ output.script[1] = RandInt(1, 3)
  /\ output.script[2] = RandFloat
  /\ Len(output.runs["one"]) = 2
  /\ Len(output.runs["one"][1]) >= 2
  /\ Len(output.runs["one"][2]) >= 2
  /\ Len(output.runs["two"][1]) >= 2

\* C23: every call randInt(min, max) returns, without failing, a number of
\* min..max when min < max and min itself when min >= max, with a seed and
\* without.
C23_RandIntWithinRange ==
  RandomCalls =>
    \A r \in SeededRuns : \A i \in 1..Len(r) :
      r[i].call.fn = "randInt" =>
        /\ ~r[i].panic
        /\ IF r[i].call.min < r[i].call.max
             THEN r[i].n \in r[i].call.min..r[i].call.max
             ELSE r[i].n = r[i].call.min

\* C22: whatever uuid returns, with the entropy source working or failed,
\* is five groups of 8, 4, 4, 4 and 12 hexadecimal digits separated by
\* hyphens.
C22_UuidShapeAlways == UuidReturned => UuidShape(output.s)

C25_Non2xxIsCompletedSend ==
  \A i \in 1..N :
    requests[i].reply = "status_non2xx" =>
      /\ outcome[i] # "send_error"
      /\ sent[i] <= resolved[i]
      /\ (RunOnce /\ startPc = "returned") =>
           /\ startErr = "nil"
           /\ EvalFails(requests[i]) \/ (sent[i] = 1 /\ outcome[i] = "status_non2xx")

\* C25 witness: a run-once run has returned after a definition was answered
\* with a status outside 2xx and another definition was sent too.
C25_Witness ==
  /\ RunOnce
  /\ startPc = "returned"
  /\ \E i, j \in 1..N :
       /\ i # j
       /\ outcome[i] = "status_non2xx" /\ sent[i] = 1
       /\ sent[j] = 1

\* C26: Stop can be called at every moment, before, during and after a run,
\* and returns without waiting; once it has been called the scheduler is not
\* running, and a further call changes nothing.
C26_StopIdempotent ==
  /\ [](ENABLED Stop)
  /\ [][Stop => ~running']_vars
  /\ [](~running => StopChangesNothing)

\* C26 witness: a continuous run whose workers are polling has been stopped,
\* and a second Stop would change nothing.
C26_Witness ==
  /\ Continuous
  /\ cancelled /\ ~running
  /\ \E w \in WorkerIds : wpc[w] \in {"top", "scan"}
  /\ StopChangesNothing

\* C27: whenever the signal handler has called Stop, before Start marked
\* the scheduler running or after, the continuous run ends: Start returns.
C27_StopNeverLost ==
  (input.kind = "main" /\ input.handler = "stopped") ~> (startPc = "returned")

C29_ExpressionIffMatchedPair ==
  output.kind = "IsTemplateString" => (output.is <=> MatchedPair(input.s))

\* C30: whichever strategy a description sets (epoch, relative, template,
\* cron), with a jitter of positive magnitude the schedule computation of
\* request resolution, and that of the schedule engine, can return an
\* instant of the jitter window after the base, not the base alone.
C30_JitterWithEveryStrategy ==
  JitterToApply =>
    /\ ENABLED (CallComputeScheduledTime /\ InWindowAfterBase)
    /\ ENABLED (CallComputeNextRunWithTemplate /\ InWindowAfterBase)

\* C34: for a description whose strategy is a cron pattern, and for one that
\* sets no strategy, the Evaluator's schedule computation returns an error
\* and the zero instant; EvaluateRequest of a request with a cron schedule
\* therefore returns an error and no ResolvedRequest.
C34_CronAndNoStrategyFail ==
  (output.kind = "computeScheduledTime"
     /\ ~IsSet(input.schedule.Epoch) /\ ~IsSet(input.schedule.Relative)
     /\ ~IsSet(input.schedule.Template))
    => /\ output.err # NoError /\ output.zero /\ ~output.panic
       /\ IsSet(input.schedule.Cron) =>
            \A r \in EvaluateRequest(Request(Plain, <<>>, NilValue, input.schedule),
                                     input.t, input.bits, input.seed) :
              /\ r.resolved = NoRequest
              /\ Head(r.err) = "failed to compute scheduled time"

\* C34 witness: the computation was called with a cron pattern that parses
\* and a jitter, and returned the error of the missing implementation.
C34_Witness ==
  /\ output.kind = "computeScheduledTime"
  /\ input.schedule = ScheduleSpec(<<>>, <<>>, <<>>, <<<<"*">>>>, <<TwoSeconds>>)
  /\ output.err = <<"cron scheduling not yet implemented">>
  /\ output.zero

\* C38: for every description and reference time, the Evaluator's schedule
\* computation and the schedule engine's ComputeNextRunWithTemplate have the
\* same possible outcomes: both fail, or both return an instant of the same
\* set.
C38_ComputationsAgree ==
  output.kind \in {"computeScheduledTime", "ComputeNextRunWithTemplate"} =>
    Outcomes(computeScheduledTime(input.schedule, input.t, input.bits, input.seed))
      = Outcomes(ComputeNextRunWithTemplate(input.t, input.schedule))

\* C31: with the same seed and the clock frozen, two contexts that compute
\* the same jittered schedule get the same instant, from the Evaluator's
\* computation and from the schedule engine's.
C31_JitterReproducible ==
  output.kind = "jittered" =>
    /\ (output.evaluator["one"] # <<>> /\ output.evaluator["two"] # <<>>)
         => output.evaluator["one"] = output.evaluator["two"]
    /\ (output.engine["one"] # <<>> /\ output.engine["two"] # <<>>)
         => output.engine["one"] = output.engine["two"]

\* C32: an evaluation (EvaluateTemplate, EvaluateRequest) leaves the
\* variables, the seed and the clock of the context as they were and
\* changes at most the sequence counter and the random source; a step that
\* changes a variable is a SetVariable and one that changes the seed a
\* SetSeed.
C32_EvaluationFrame ==
  [][(output.kind = "context" /\ output'.kind = "context") =>
       /\ output'.last \in {"EvaluateTemplate", "EvaluateRequest"} =>
            /\ output'.ctx.Variables = output.ctx.Variables
            /\ output'.ctx.Seed = output.ctx.Seed
            /\ output'.ctx.Clock = output.ctx.Clock
       /\ output'.ctx.Variables # output.ctx.Variables => output'.last = "SetVariable"
       /\ output'.ctx.Seed # output.ctx.Seed => output'.last = "SetSeed"]_vars

\* An evaluation has advanced the counter and the random source of a
\* context that holds a variable
C32_Witness ==
  /\ output.kind = "context"
  /\ output.last \in {"EvaluateTemplate", "EvaluateRequest"}
  /\ output.ctx.Sequence > 0
  /\ output.ctx.randSource # <<>>
  /\ DOMAIN output.ctx.Variables # {}

\* C33: EvaluateRequest leaves the definition as it was, and the header map
\* and the body containers of a resolved request are shared neither with
\* the definition nor with the request another resolution returned.
C33_ResolvedRequestFresh ==
  output.kind = "sharing" =>
    /\ output.def = input.def
    /\ \A x \in Engines :
         Held(x) \cap ({output.def.Headers} \cup Containers(output.def.Body)) = {}
    /\ Held("one") \cap Held("two") = {}

\* C35: at most one run is active on a Scheduler: while a call of Start
\* has not returned no other call starts a run, whether or not Stop was
\* called meanwhile, so the sends in flight never exceed the concurrency.
C35_OneRunAtATime ==
  output.kind = "restart" =>
    /\ Cardinality(ActiveRuns) <= 1
    /\ SendsInFlight <= input.concurrency

\* C36: the slots taken of the gate are at every moment as many as the
\* dispatches between acquiring a slot and releasing it, whichever way a
\* dispatch ends, and none is taken once a run-once has returned.
C36_SlotsConserved ==
  /\ sem = HoldingSlot
  /\ (once /\ ~dryRun /\ startErr = "nil") => (sem = 0 /\ sendq = <<>>)

\* A run-once has returned after one dispatch failed to resolve and
\* another was sent
C36_Witness ==
  /\ once /\ ~dryRun /\ startErr = "nil"
  /\ \E i, j \in 1..N : outcome[i] = "eval_error" /\ outcome[j] \notin {"eval_error", "none"}

\* C37: in a continuous run with several workers a due definition is
\* dispatched once in a poll cycle: no worker dispatches a definition that
\* another worker has dispatched in the scan it is still making.
C37_OncePerPollCycle ==
  [][(Continuous /\ workers > 1) =>
       \A w \in WorkerIds, x \in WorkerIds, i \in 1..N :
         (w # x /\ DispatchedInScan(x, i)) => ~Dispatches(w, i)]_vars

\* C39: NewScheduler replaces a number of workers, a concurrency and a
\* timeout that are not positive by 1, 10 and 30 seconds and keeps the
\* others, so a Scheduler has a worker and its gate has room for a first
\* dispatch.
C39_SettingsNormalised ==
  output.kind = "NewScheduler" =>
    LET s == output.scheduler
        c == input.config
    IN /\ s.workers = (IF c.Workers <= 0 THEN 1 ELSE c.Workers)
       /\ s.concurrency = (IF c.Concurrency <= 0 THEN 10 ELSE c.Concurrency)
       /\ s.httpClient.timeout = (IF c.Timeout <= 0 THEN 30 ELSE c.Timeout)
       /\ s.workers >= 1 /\ s.concurrency >= 1 /\ s.httpClient.timeout >= 1
       /\ SemHasRoom(0, s.concurrency)

\* A Scheduler was made from a configuration in which nothing is positive
C39_Witness ==
  /\ output.kind = "NewScheduler"
  /\ input.config.Workers < 0 /\ input.config.Concurrency = 0 /\ input.config.Timeout <= 0
  /\ output.scheduler.workers = 1 /\ output.scheduler.concurrency = 10

====
